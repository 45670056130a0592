------------------------------ MODULE OfferProofs ------------------------------
(***************************************************************************)
(* Proofs about what an offer costs and how often it sells.                *)
(*                                                                         *)
(* Offers and bookings: for any number of clients that check and book at   *)
(* once, one search result is sold at most once, one clientReference books *)
(* at most once, every caller is answered with its own booking and no      *)
(* claim is lost silently.                                                 *)
(*                                                                         *)
(* The calculations behind an offer (pricing, markup rules, cancellation   *)
(* fees, the rates a supplier's answer holds) and the configuration of the *)
(* two processes: what the runs check over small inputs, for rule lists,   *)
(* answers and rate rows of every length and for every amount; and what a  *)
(* recorded conversation with a supplier replays as.                       *)
(***************************************************************************)
EXTENDS OfferBooking, MCAlgorithms, FiniteSetTheorems, SequenceTheorems, WellFoundedInduction, TLAPS

\* The origin of a chain of successors is itself an offer that was issued.
RootsExist == \A o \in Offers : Exists(o) => Exists(offers[o].root)

\* The requests that claimed their offer and have not been refused since.
Holding == {"claimed", "created", "booked"}

\* Such a request owns its offer, and owns it alone.
ClaimHeld ==
    \A r \in Requests :
       req[r].pc \in Holding => offers[req[r].offer].invalidatedBy = "claim"

ClaimExclusive ==
    \A r, s \in Requests :
       r # s /\ req[r].pc \in Holding /\ req[s].pc \in Holding => req[r].offer # req[s].offer

IInv ==
    /\ TypeOK
    /\ RootsExist
    /\ OneBookableSuccessor
    /\ ClaimHeld
    /\ ClaimExclusive
    /\ AnswersOwnBooking
    /\ ClaimsAccountedFor
-----------------------------------------------------------------------------
\* Nothing is issued, asked or booked at first.
LEMMA InitInv == Init => IInv
<1> SUFFICES ASSUME Init PROVE IInv
    OBVIOUS
<1> USE DEF Init
<1>1. NoOfferRow \in OfferRows /\ NoOfferRow.invalidatedBy = "absent"
    BY DEF NoOfferRow, OfferRows
<1>2. NoRequest \in RequestStates /\ NoRequest.pc = "idle"
    BY DEF NoRequest, RequestStates, Underway, Answers
<1>3. IdleCheck \in CheckStates /\ IdleCheck.pc = "idle"
    BY DEF IdleCheck, CheckStates
<1>4. NoBooking \in BookingRows
    BY DEF NoBooking, BookingRows
<1>5. TypeOK
    BY <1>1, <1>2, <1>3, <1>4, TimeAssumption DEF TypeOK, Exists
<1>6. RootsExist /\ OneBookableSuccessor /\ ClaimsAccountedFor
    BY <1>1 DEF RootsExist, OneBookableSuccessor, ClaimsAccountedFor, InPlay, Live, Exists
<1>7. ClaimHeld /\ ClaimExclusive /\ AnswersOwnBooking
    BY <1>2 DEF ClaimHeld, ClaimExclusive, AnswersOwnBooking, Holding
<1> QED BY <1>5, <1>6, <1>7 DEF IInv
-----------------------------------------------------------------------------
(* Steps of a check that write nothing, and the clock.                     *)

\* What every step of a check leaves alone.
UnwrittenRows == <<offers, bookings, req>>

\* A step that writes no row keeps the invariant.
LEMMA UnwrittenKeeps ==
    ASSUME IInv, TypeOK', UNCHANGED UnwrittenRows
    PROVE  IInv'
BY DEF IInv, RootsExist, OneBookableSuccessor, ClaimHeld, ClaimExclusive, AnswersOwnBooking,
       ClaimsAccountedFor, InPlay, Live, Exists, UnwrittenRows

\* Time passes.
LEMMA TickKeeps ==
    ASSUME IInv, Tick
    PROVE  IInv'
<1>1. TypeOK' /\ UNCHANGED UnwrittenRows
    BY TimeAssumption DEF IInv, TypeOK, Tick, Exists, UnwrittenRows
<1> QED BY <1>1, UnwrittenKeeps

\* revalidate: reading the offer, the answer of the supplier, the end.
LEMMA CheckReadsKeep ==
    ASSUME IInv, NEW c \in Checks, CheckVerify(c) \/ CheckAnswer(c) \/ CheckEnd(c)
    PROVE  IInv'
<1>1. UNCHANGED UnwrittenRows /\ UNCHANGED now
    BY DEF CheckVerify, CheckAnswer, CheckEnd, UnwrittenRows
<1>2. CASE CheckVerify(c)
    <2>1. PICK o \in Offers :
            /\ Live(o)
            /\ chk' = [chk EXCEPT ![c] = [pc |-> "asking", offer |-> o, at |-> 0]]
        BY <1>2 DEF CheckVerify
    <2>2. [pc |-> "asking", offer |-> o, at |-> 0] \in CheckStates /\ o # None /\ Exists(o)
        BY <2>1, NoneAssumption DEF CheckStates, Live, Exists
    <2>3. TypeOK'
        BY <1>1, <2>1, <2>2 DEF IInv, TypeOK, Exists, UnwrittenRows
    <2> QED BY <1>1, <2>3, UnwrittenKeeps
<1>3. CASE CheckAnswer(c)
    <2>1. PICK pc \in {"same", "moved", "gone"}, at \in {now, 0} :
            chk' = [chk EXCEPT ![c].pc = pc, ![c].at = at] /\ chk[c].pc # "idle"
        BY <1>3 DEF CheckAnswer
    <2>2. at \in Nat
        BY DEF IInv, TypeOK
    <2> DEFINE s == [chk[c] EXCEPT !.pc = pc, !.at = at]
    <2>3. s \in CheckStates /\ s.offer = chk[c].offer
        BY <2>2 DEF IInv, TypeOK, CheckStates
    <2>4. chk' = [chk EXCEPT ![c] = s]
        BY <2>1
    <2> HIDE DEF s
    <2>5. s.offer # None /\ Exists(s.offer)
        BY <2>1, <2>3 DEF IInv, TypeOK
    <2>6. TypeOK'
        BY <1>1, <2>3, <2>4, <2>5 DEF IInv, TypeOK, Exists, UnwrittenRows
    <2> QED BY <1>1, <2>6, UnwrittenKeeps
<1>4. CASE CheckEnd(c)
    <2>1. IdleCheck \in CheckStates /\ IdleCheck.pc = "idle"
        BY DEF IdleCheck, CheckStates
    <2>2. TypeOK'
        BY <1>1, <1>4, <2>1 DEF IInv, TypeOK, CheckEnd, Exists, UnwrittenRows
    <2> QED BY <1>1, <2>2, UnwrittenKeeps
<1> QED BY <1>2, <1>3, <1>4
-----------------------------------------------------------------------------
(* Steps that write offers and nothing else.                               *)

\* How a row may change while no request claims it: a live row may be
\* withdrawn or stamped, a claimed one keeps its claim.
RowStep(o) ==
    /\ offers'[o].root = offers[o].root
    /\ InPlay(o)' => InPlay(o)
    /\ Exists(o)' <=> Exists(o)
    /\ offers'[o].invalidatedBy = "claim" <=> offers[o].invalidatedBy = "claim"

\* A step on rows that exist already.
LEMMA RowStepsKeep ==
    ASSUME IInv, TypeOK', UNCHANGED <<bookings, req>>, \A o \in Offers : RowStep(o)
    PROVE  IInv'
<1>1. RootsExist'
    <2>1. \A o \in Offers : Exists(o) => offers[o].root \in Offers
        BY DEF IInv, TypeOK, OfferRows
    <2> QED BY <2>1 DEF IInv, RootsExist, RowStep, Exists
<1>2. OneBookableSuccessor'
    BY DEF IInv, OneBookableSuccessor, RowStep
<1>3. ClaimHeld'
    <2>1. \A r \in Requests : req[r].pc \in Holding => req[r].offer \in Offers
        BY DEF IInv, TypeOK, RequestStates, Holding
    <2> QED BY <2>1 DEF IInv, ClaimHeld, RowStep
<1>4. ClaimsAccountedFor'
    BY DEF IInv, ClaimsAccountedFor, RowStep
<1>5. ClaimExclusive' /\ AnswersOwnBooking'
    BY DEF IInv, ClaimExclusive, AnswersOwnBooking
<1> QED BY <1>1, <1>2, <1>3, <1>4, <1>5 DEF IInv

\* revalidate: the offer is marked as checked.
LEMMA CheckMarkKeeps ==
    ASSUME IInv, NEW c \in Checks, CheckMark(c)
    PROVE  IInv'
<1> DEFINE o == chk[c].offer
           row == [offers[o] EXCEPT !.checkedAt = now]
           s == [chk[c] EXCEPT !.pc = "unchanged"]
<1>1. /\ o \in Offers /\ offers \in [Offers -> OfferRows] /\ chk \in [Checks -> CheckStates]
      /\ chk[c].pc # "idle" /\ now \in Nat
      /\ UNCHANGED <<now, bookings, req>>
    BY DEF IInv, TypeOK, CheckMark, CheckStates
<1>2. /\ row \in OfferRows
      /\ row.root = offers[o].root /\ row.agency = offers[o].agency
      /\ row.invalidatedBy = offers[o].invalidatedBy
    BY <1>1 DEF OfferRows
<1>3. s \in CheckStates /\ s.offer = o
    BY <1>1 DEF CheckStates
<1>4. /\ offers' = IF Live(o) THEN [offers EXCEPT ![o] = row] ELSE offers
      /\ chk' = [chk EXCEPT ![c] = s]
    BY DEF CheckMark
<1> HIDE DEF row, s
<1>5. \A p \in Offers : RowStep(p) /\ offers'[p] \in OfferRows /\ offers'[p].agency = offers[p].agency
    BY <1>1, <1>2, <1>4 DEF RowStep, InPlay, Live, Exists
<1>6. offers' \in [Offers -> OfferRows]
    BY <1>1, <1>2, <1>4
<1>7. TypeOK'
    BY <1>1, <1>3, <1>4, <1>5, <1>6 DEF IInv, TypeOK, RowStep, Exists
<1> QED BY <1>1, <1>5, <1>7, RowStepsKeep

\* revalidate: a rate that is gone withdraws its offer.
LEMMA CheckWithdrawKeeps ==
    ASSUME IInv, NEW c \in Checks, CheckWithdraw(c)
    PROVE  IInv'
<1> DEFINE o == chk[c].offer
           row == [offers[o] EXCEPT !.invalidatedBy = IF @ = "nobody" THEN "withdrawal" ELSE @]
<1>1. /\ o \in Offers /\ offers \in [Offers -> OfferRows]
      /\ chk[c].pc # "idle" /\ Exists(o)
      /\ UNCHANGED <<now, bookings, req>>
    BY DEF IInv, TypeOK, CheckWithdraw, CheckStates
<1>2. /\ row \in OfferRows
      /\ row.root = offers[o].root /\ row.agency = offers[o].agency
      /\ row.invalidatedBy = IF offers[o].invalidatedBy = "nobody" THEN "withdrawal"
                             ELSE offers[o].invalidatedBy
    BY <1>1 DEF OfferRows
<1>3. IdleCheck \in CheckStates /\ IdleCheck.pc = "idle"
    BY DEF IdleCheck, CheckStates
<1>4. offers' = [offers EXCEPT ![o] = row] /\ chk' = [chk EXCEPT ![c] = IdleCheck]
    BY DEF CheckWithdraw, Invalidate
<1> HIDE DEF row
<1>5. \A p \in Offers : RowStep(p) /\ offers'[p].agency = offers[p].agency
    BY <1>1, <1>2, <1>4 DEF RowStep, InPlay, Live, Exists
<1>6. offers' \in [Offers -> OfferRows]
    BY <1>1, <1>2, <1>4
<1>7. TypeOK'
    BY <1>1, <1>3, <1>4, <1>5, <1>6 DEF IInv, TypeOK, RowStep, Exists
<1> QED BY <1>1, <1>5, <1>7, RowStepsKeep

(* A new row: searched, or the successor of a row that leaves play in the  *)
(* same step.                                                              *)
LEMMA NewRowKeeps ==
    ASSUME IInv, TypeOK', UNCHANGED <<bookings, req>>,
           NEW s \in Offers, ~Exists(s), Live(s)', Exists(offers[s].root)',
           \A o \in Offers \ {s} : RowStep(o),
           \A o \in Offers \ {s} : InPlay(o)' => offers[o].root # offers'[s].root
    PROVE  IInv'
<1>1. offers'[s].invalidatedBy # "claim"
    BY DEF Live
<1>2. \A o \in Offers : Exists(o) => o # s
    OBVIOUS
<1>3. RootsExist'
    <2>1. \A o \in Offers \ {s} :
             Exists(o) => offers[o].root \in Offers \ {s} /\ Exists(offers[o].root)
        BY DEF IInv, TypeOK, OfferRows, RootsExist, Exists
    <2>2. \A o \in Offers \ {s} : Exists(o)' => Exists(offers[o].root)'
        BY <2>1 DEF RowStep, Exists
    <2> QED BY <2>2 DEF RootsExist
<1>4. OneBookableSuccessor'
    BY DEF IInv, OneBookableSuccessor, RowStep
<1>5. ClaimHeld'
    <2>1. \A r \in Requests : req[r].pc \in Holding =>
             req[r].offer \in Offers \ {s} /\ offers[req[r].offer].invalidatedBy = "claim"
        BY DEF IInv, TypeOK, RequestStates, Holding, ClaimHeld, Exists
    <2> QED BY <2>1 DEF ClaimHeld, RowStep
<1>6. ClaimsAccountedFor'
    BY <1>1 DEF IInv, ClaimsAccountedFor, RowStep
<1>7. ClaimExclusive' /\ AnswersOwnBooking'
    BY DEF IInv, ClaimExclusive, AnswersOwnBooking
<1> QED BY <1>3, <1>4, <1>5, <1>6, <1>7 DEF IInv

\* A search issues an offer.
LEMMA IssueOfferKeeps ==
    ASSUME IInv, NEW s \in Offers, IssueOffer(s)
    PROVE  IInv'
<1>1. PICK agency \in Agencies :
         offers' = [offers EXCEPT ![s] =
            [invalidatedBy |-> "nobody", root |-> s, agency |-> agency,
             expiresAt |-> now + TTL, checkedAt |-> None]]
    BY DEF IssueOffer
<1> DEFINE row == [invalidatedBy |-> "nobody", root |-> s, agency |-> agency,
                   expiresAt |-> now + TTL, checkedAt |-> None]
<1>2. row \in OfferRows /\ row.root = s /\ row.agency = agency /\ row.invalidatedBy = "nobody"
    BY TimeAssumption DEF IInv, TypeOK, OfferRows
<1>3. /\ offers' = [offers EXCEPT ![s] = row] /\ ~Exists(s)
      /\ UNCHANGED <<now, bookings, req, chk>>
      /\ offers \in [Offers -> OfferRows]
    BY <1>1 DEF IssueOffer, IInv, TypeOK
<1> HIDE DEF row
<1>4. /\ offers' \in [Offers -> OfferRows]
      /\ offers'[s] = row /\ s # None /\ agency # None
    BY <1>2, <1>3, NoneAssumption
<1>5. \A o \in Offers \ {s} : RowStep(o) /\ offers'[o] = offers[o]
    BY <1>3 DEF RowStep, InPlay, Live, Exists
<1>6. TypeOK'
    BY <1>2, <1>3, <1>4, <1>5 DEF IInv, TypeOK, Exists
<1>7. Live(s)' /\ Exists(offers[s].root)'
    BY <1>2, <1>4 DEF Live, Exists
<1>8. \A o \in Offers \ {s} : InPlay(o)' => offers[o].root # offers'[s].root
    BY <1>2, <1>3, <1>4, <1>5 DEF IInv, RootsExist, InPlay, Live, Exists
<1> QED BY <1>3, <1>5, <1>6, <1>7, <1>8, NewRowKeeps

\* revalidate: a changed rate is a successor, the old offer superseded.
LEMMA CheckSupersedeKeeps ==
    ASSUME IInv, NEW c \in Checks, CheckSupersede(c)
    PROVE  IInv'
<1> DEFINE o == chk[c].offer
<1>1. /\ o \in Offers /\ Exists(o) /\ offers \in [Offers -> OfferRows]
      /\ offers[o].root # None /\ offers[o].agency # None
      /\ chk[c].at \in Nat /\ UNCHANGED <<now, bookings, req>>
      /\ chk' = [chk EXCEPT ![c] = IdleCheck]
    BY DEF IInv, TypeOK, CheckSupersede, CheckStates
<1>2. IdleCheck \in CheckStates /\ IdleCheck.pc = "idle"
    BY DEF IdleCheck, CheckStates
<1>3. CASE UNCHANGED offers
    <2>1. TypeOK'
        BY <1>1, <1>2, <1>3 DEF IInv, TypeOK, Exists
    <2> QED BY <1>1, <1>3, <2>1, UnwrittenKeeps DEF UnwrittenRows
<1>4. CASE Live(o) /\ \E s \in Offers :
              /\ ~Exists(s)
              /\ offers' = [offers EXCEPT
                    ![o].invalidatedBy = "supersede", ![s] = Successor(o, chk[c].at)]
    <2>1. PICK s \in Offers :
             /\ ~Exists(s)
             /\ offers' = [offers EXCEPT
                   ![o].invalidatedBy = "supersede", ![s] = Successor(o, chk[c].at)]
        BY <1>4
    <2> DEFINE old == [offers[o] EXCEPT !.invalidatedBy = "supersede"]
               new == Successor(o, chk[c].at)
    <2>2. /\ old \in OfferRows /\ old.invalidatedBy = "supersede"
          /\ old.root = offers[o].root /\ old.agency = offers[o].agency
        BY <1>1 DEF OfferRows
    <2>3. /\ new \in OfferRows /\ new.invalidatedBy = "nobody"
          /\ new.root = offers[o].root /\ new.agency = offers[o].agency
        BY <1>1, TimeAssumption DEF OfferRows, Successor
    <2>4. s # o /\ offers' = [offers EXCEPT ![o] = old, ![s] = new]
        BY <1>1, <2>1
    <2> HIDE DEF old, new
    <2>5. /\ offers' \in [Offers -> OfferRows]
          /\ offers'[s] = new /\ offers'[o] = old
          /\ \A p \in Offers \ {o, s} : offers'[p] = offers[p]
        BY <1>1, <2>2, <2>3, <2>4
    <2>6. \A p \in Offers \ {s} : RowStep(p) /\ offers'[p].agency = offers[p].agency
        BY <1>1, <1>4, <2>2, <2>5 DEF RowStep, InPlay, Live, Exists
    <2>7. TypeOK'
        <3>1. \A p \in Offers \ {s} : Exists(p)' =>
                 offers'[p].root # None /\ offers'[p].agency # None
            BY <2>6 DEF IInv, TypeOK, RowStep, Exists
        <3>2. \A p \in Offers : Exists(p) => Exists(p)'
            BY <2>1, <2>6 DEF RowStep
        <3>a. offers'[s].root # None /\ offers'[s].agency # None
            BY <1>1, <2>3, <2>5
        <3>3. \A p \in Offers : Exists(p)' => offers'[p].root # None /\ offers'[p].agency # None
            BY <3>1, <3>a
        <3>4. \A r \in Requests : req[r].pc # "idle" => Exists(req[r].offer)'
            <4>1. \A r \in Requests : req[r].pc # "idle" =>
                     req[r].offer \in Offers /\ Exists(req[r].offer)
                BY DEF IInv, TypeOK, RequestStates
            <4> QED BY <1>1, <3>2, <4>1
        <3>5. /\ chk' \in [Checks -> CheckStates]
              /\ \A d \in Checks : chk'[d].pc # "idle" =>
                    chk'[d].offer # None /\ Exists(chk[d].offer)'
            <4>1. \A d \in Checks : chk[d].pc # "idle" => chk[d].offer # None /\ Exists(chk[d].offer)
                BY DEF IInv, TypeOK
            <4>2. \A d \in Checks : chk[d].offer # None => chk[d].offer \in Offers
                BY DEF IInv, TypeOK, CheckStates
            <4>3. chk' \in [Checks -> CheckStates]
                BY <1>1, <1>2 DEF IInv, TypeOK
            <4>4. \A d \in Checks : chk'[d].pc # "idle" => chk'[d] = chk[d]
                BY <1>1, <1>2 DEF IInv, TypeOK
            <4> QED BY <3>2, <4>1, <4>2, <4>3, <4>4
        <3>6. UNCHANGED <<now, bookings, req>>
            BY <1>1
        <3>7. offers' \in [Offers -> OfferRows]
            BY <2>5
        <3> QED BY <3>3, <3>4, <3>5, <3>6, <3>7 DEF IInv, TypeOK
    <2>8. Live(s)' /\ Exists(offers[s].root)'
        <3>1. offers[o].root \in Offers /\ Exists(offers[o].root)
            BY <1>1 DEF IInv, RootsExist, OfferRows
        <3>2. Live(s)'
            BY <2>3, <2>5 DEF Live
        <3>3. offers[o].root # s /\ offers'[s].root = offers[o].root
            BY <2>1, <2>3, <2>5, <3>1
        <3>4. \A p \in Offers : p = offers[o].root => Exists(p)'
            BY <2>6, <3>1, <3>3 DEF RowStep
        <3> QED BY <3>1, <3>2, <3>3, <3>4
    <2>9. \A p \in Offers \ {s} : InPlay(p)' => offers[p].root # offers'[s].root
        <3>1. \A p \in Offers : p = o => ~InPlay(p)'
            BY <2>2, <2>5 DEF InPlay, Live
        <3>2. InPlay(o)
            BY <1>4 DEF InPlay
        <3>3. \A p \in Offers \ {o} : InPlay(p) => offers[p].root # offers[o].root
            BY <1>1, <3>2 DEF IInv, OneBookableSuccessor
        <3>4. \A p \in Offers \ {s} : InPlay(p)' => InPlay(p)
            BY <2>6 DEF RowStep
        <3>5. offers'[s].root = offers[o].root
            BY <2>3, <2>5
        <3> QED BY <3>1, <3>3, <3>4, <3>5
    <2> QED BY <1>1, <2>1, <2>6, <2>7, <2>8, <2>9, NewRowKeeps
<1> QED BY <1>3, <1>4 DEF CheckSupersede
-----------------------------------------------------------------------------
(* Book requests.                                                          *)

Pcs == {"idle"} \union Underway \union Answers

\* The requests that answer with a booking, or are about to.
Booked == {"created", "booked", "replayed"}

\* What answering a request makes of its record.
LEMMA AnswerTyped ==
    ASSUME TypeOK, NEW r \in Requests, NEW pc \in Pcs, Answer(r, pc), req[r].pc # "idle"
    PROVE  /\ req' \in [Requests -> RequestStates]
           /\ \A s \in Requests \ {r} : req'[s] = req[s]
           /\ req'[r].pc = pc /\ req'[r].offer = req[r].offer
           /\ req'[r].reference = req[r].reference /\ req'[r].agency = req[r].agency
           /\ req[r].offer \in Offers /\ req[r].reference \in References
           /\ req[r].agency \in Agencies
<1> DEFINE s == [req[r] EXCEPT !.pc = pc]
<1>1. req[r] \in RequestStates /\ req \in [Requests -> RequestStates]
    BY DEF TypeOK
<1>2. s \in RequestStates
    BY <1>1 DEF RequestStates, Pcs
<1>3. /\ s.pc = pc /\ s.offer = req[r].offer /\ s.reference = req[r].reference
      /\ s.agency = req[r].agency
    BY <1>1 DEF RequestStates
<1>4. req' = [req EXCEPT ![r] = s]
    BY DEF Answer
<1> HIDE DEF s
<1>5. /\ req[r].offer \in Offers /\ req[r].reference \in References
      /\ req[r].agency \in Agencies
    BY <1>1 DEF TypeOK, RequestStates
<1> QED BY <1>1, <1>2, <1>3, <1>4, <1>5

(* A request moves on without writing: it claims nothing, and gives up a   *)
(* claim only to a booking or to a caller who hears of it.                 *)
LEMMA AnswerKeeps ==
    ASSUME IInv, NEW r \in Requests, NEW pc \in Pcs, Answer(r, pc),
           req[r].pc # "idle", UNCHANGED <<now, offers, bookings, chk>>,
           pc \in Holding => req[r].pc \in Holding,
           \/ pc \in Booked => req[r].pc \in Booked
           \/ bookings[req[r].reference] = [agency |-> req[r].agency, offer |-> req[r].offer],
           \/ req[r].pc = "claimed" => pc \in {"in_use", "conflict", "crashed"}
           \/ bookings[req[r].reference].offer = req[r].offer,
           req[r].pc \notin {"in_use", "conflict", "crashed"}
    PROVE  IInv'
<1>1. /\ req' \in [Requests -> RequestStates]
      /\ \A s \in Requests \ {r} : req'[s] = req[s]
      /\ req'[r].pc = pc /\ req'[r].offer = req[r].offer
      /\ req'[r].reference = req[r].reference /\ req'[r].agency = req[r].agency
      /\ req[r].reference \in References
    BY AnswerTyped DEF IInv
<1>2. TypeOK'
    BY <1>1 DEF IInv, TypeOK, Exists
<1>3. RootsExist' /\ OneBookableSuccessor'
    BY DEF IInv, RootsExist, OneBookableSuccessor, InPlay, Live, Exists
<1>4. ClaimHeld' /\ ClaimExclusive'
    BY <1>1 DEF IInv, ClaimHeld, ClaimExclusive
<1>5. AnswersOwnBooking'
    BY <1>1 DEF IInv, AnswersOwnBooking, Booked
<1>6. ClaimsAccountedFor'
    BY <1>1 DEF IInv, ClaimsAccountedFor
<1> QED BY <1>2, <1>3, <1>4, <1>5, <1>6 DEF IInv

\* A replay answers with the booking of the same agency and offer only.
LEMMA ReplayIsOwn ==
    ASSUME NEW booking \in BookingRows, NEW agency, NEW offer
    PROVE  /\ ReplayAnswer(agency, offer, booking) \in {"in_use", "conflict", "replayed"}
           /\ ReplayAnswer(agency, offer, booking) = "replayed" =>
                 booking = [agency |-> agency, offer |-> offer]
BY DEF ReplayAnswer, BookingRows

\* create: the clientReference is looked up.
LEMMA LookUpKeeps ==
    ASSUME IInv, NEW r \in Requests, LookUp(r)
    PROVE  IInv'
<1>1. PICK reference \in References, agency \in Agencies, o \in Offers :
         /\ Exists(o)
         /\ req' = [req EXCEPT ![r] =
               [pc        |-> IF bookings[reference] = NoBooking THEN "looked"
                              ELSE ReplayAnswer(agency, o, bookings[reference]),
                reference |-> reference,
                agency    |-> agency,
                offer     |-> o]]
    BY DEF LookUp
<1> DEFINE pc == IF bookings[reference] = NoBooking THEN "looked"
                 ELSE ReplayAnswer(agency, o, bookings[reference])
           s == [pc |-> pc, reference |-> reference, agency |-> agency, offer |-> o]
<1>2. /\ req[r].pc = "idle" /\ UNCHANGED <<now, offers, bookings, chk>>
      /\ req \in [Requests -> RequestStates]
      /\ bookings[reference] \in BookingRows
    BY DEF LookUp, IInv, TypeOK
<1>3. /\ pc \in {"looked", "in_use", "conflict", "replayed"}
      /\ pc = "replayed" => bookings[reference] = [agency |-> agency, offer |-> o]
    BY <1>2, ReplayIsOwn
<1> HIDE DEF pc
<1>4. s \in RequestStates
    BY <1>3 DEF RequestStates, Underway, Answers
<1>5. /\ req' = [req EXCEPT ![r] = s] /\ s.pc = pc /\ s.reference = reference
      /\ s.agency = agency /\ s.offer = o
    BY <1>1 DEF pc
<1> HIDE DEF s
<1>6. /\ req' \in [Requests -> RequestStates] /\ req'[r] = s
      /\ \A q \in Requests \ {r} : req'[q] = req[q]
    BY <1>2, <1>4, <1>5
<1>7. TypeOK'
    BY <1>1, <1>2, <1>5, <1>6, NoneAssumption DEF IInv, TypeOK, Exists
<1>8. RootsExist' /\ OneBookableSuccessor'
    BY <1>2 DEF IInv, RootsExist, OneBookableSuccessor, InPlay, Live, Exists
<1>9. ClaimHeld' /\ ClaimExclusive'
    BY <1>2, <1>3, <1>5, <1>6 DEF IInv, ClaimHeld, ClaimExclusive, Holding
<1>10. AnswersOwnBooking'
    BY <1>2, <1>3, <1>5, <1>6 DEF IInv, AnswersOwnBooking
<1>11. ClaimsAccountedFor'
    BY <1>2, <1>6 DEF IInv, ClaimsAccountedFor
<1> QED BY <1>7, <1>8, <1>9, <1>10, <1>11 DEF IInv

\* create: the offer is read and may refuse.
LEMMA GateKeeps ==
    ASSUME IInv, NEW r \in Requests, Gate(r)
    PROVE  IInv'
<1>1. PICK pc \in {"invalidated", "gated", "refused"} : Answer(r, pc)
    BY DEF Gate
<1>2. req[r].pc = "looked" /\ UNCHANGED <<now, offers, bookings, chk>>
    BY DEF Gate
<1>3. pc \in Pcs /\ pc \notin Holding /\ pc \notin Booked
    BY DEF Pcs, Underway, Answers, Holding, Booked
<1> QED BY <1>1, <1>2, <1>3, AnswerKeeps

\* create: the supplier is called.
LEMMA BookKeeps ==
    ASSUME IInv, NEW r \in Requests, CallSupplier(r)
    PROVE  IInv'
<1>1. /\ req[r].pc = "created" /\ Answer(r, "booked")
      /\ UNCHANGED <<now, offers, bookings, chk>>
    BY DEF CallSupplier
<1>2. "booked" \in Pcs /\ "created" \in Holding /\ "created" \in Booked
    BY DEF Pcs, Answers, Holding, Booked
<1> QED BY <1>1, <1>2, AnswerKeeps

\* The process dies under a request.
LEMMA CrashKeeps ==
    ASSUME IInv, NEW r \in Requests, Crash(r)
    PROVE  IInv'
<1>1. /\ req[r].pc \in Underway /\ Answer(r, "crashed")
      /\ UNCHANGED <<now, offers, bookings, chk>>
    BY DEF Crash
<1>2. "crashed" \in Pcs /\ "crashed" \notin Holding /\ "crashed" \notin Booked
    BY DEF Pcs, Answers, Holding, Booked
<1> QED BY <1>1, <1>2, AnswerKeeps DEF Underway

\* create: the offer is claimed, by one request only.
LEMMA ClaimKeeps ==
    ASSUME IInv, NEW r \in Requests, Claim(r)
    PROVE  IInv'
<1> DEFINE o == req[r].offer
           row == [offers[o] EXCEPT !.invalidatedBy = "claim"]
<1>1. req[r].pc = "gated" /\ UNCHANGED <<now, bookings, chk>>
    BY DEF Claim
<1>2. o \in Offers /\ Exists(o) /\ offers \in [Offers -> OfferRows]
    BY <1>1 DEF IInv, TypeOK, RequestStates
<1>3. CASE ~Live(o)
    <2>1. Answer(r, "invalidated") /\ UNCHANGED offers
        BY <1>2, <1>3 DEF Claim, Invalidate, Live, OfferRows
    <2>2. "invalidated" \in Pcs /\ "invalidated" \notin Holding /\ "invalidated" \notin Booked
        BY DEF Pcs, Answers, Holding, Booked
    <2> QED BY <1>1, <2>1, <2>2, AnswerKeeps
<1>4. CASE Live(o)
    <2>1. Answer(r, "claimed") /\ offers' = [offers EXCEPT ![o] = row]
        BY <1>2, <1>4 DEF Claim, Invalidate, Live
    <2>2. /\ row \in OfferRows /\ row.invalidatedBy = "claim"
          /\ row.root = offers[o].root /\ row.agency = offers[o].agency
        BY <1>2 DEF OfferRows
    <2>3. /\ req' \in [Requests -> RequestStates]
          /\ \A s \in Requests \ {r} : req'[s] = req[s]
          /\ req'[r].pc = "claimed" /\ req'[r].offer = o
          /\ req'[r].reference = req[r].reference /\ req'[r].agency = req[r].agency
        BY <1>1, <2>1, AnswerTyped DEF IInv, Pcs, Underway
    <2> HIDE DEF row, o
    <2>4. /\ offers' \in [Offers -> OfferRows] /\ offers'[o] = row
          /\ \A p \in Offers \ {o} : offers'[p] = offers[p]
        BY <1>2, <2>1, <2>2
    <2>5. \A p \in Offers : /\ Exists(p)' <=> Exists(p)
                            /\ InPlay(p)' <=> InPlay(p)
                            /\ offers'[p].root = offers[p].root
                            /\ offers'[p].agency = offers[p].agency
        BY <1>2, <1>4, <2>2, <2>4 DEF Exists, InPlay, Live
    <2>6. TypeOK'
        <3>1. \A p \in Offers : Exists(p)' => offers'[p].root # None /\ offers'[p].agency # None
            BY <2>5 DEF IInv, TypeOK
        <3>2. \A s \in Requests : req'[s].pc # "idle" =>
                 /\ req'[s].reference # None /\ req'[s].agency # None
                 /\ req'[s].offer \in Offers /\ Exists(req'[s].offer)
            BY <1>1, <1>2, <2>3 DEF IInv, TypeOK, RequestStates
        <3>3. \A s \in Requests : req'[s].pc # "idle" => Exists(req[s].offer)'
            BY <2>5, <3>2
        <3>4. \A c \in Checks : chk'[c].pc # "idle" =>
                 chk'[c].offer # None /\ Exists(chk[c].offer)'
            BY <1>1, <2>5 DEF IInv, TypeOK, CheckStates
        <3> QED BY <1>1, <2>3, <2>4, <3>1, <3>2, <3>3, <3>4, NoneAssumption DEF IInv, TypeOK
    <2>7. RootsExist'
        <3>1. \A p \in Offers : Exists(p) => offers[p].root \in Offers
            BY DEF IInv, TypeOK, OfferRows
        <3> QED BY <2>5, <3>1 DEF IInv, RootsExist
    <2>8. OneBookableSuccessor'
        BY <2>5 DEF IInv, OneBookableSuccessor
    <2>9. \A s \in Requests \ {r} : req[s].pc \in Holding =>
             req[s].offer \in Offers \ {o} /\ offers[req[s].offer].invalidatedBy = "claim"
        BY <1>4 DEF IInv, ClaimHeld, TypeOK, RequestStates, Holding, Live
    <2>10. ClaimHeld'
        BY <2>2, <2>3, <2>4, <2>9 DEF ClaimHeld
    <2>11. ClaimExclusive'
        BY <2>3, <2>9 DEF IInv, ClaimExclusive
    <2>12. AnswersOwnBooking'
        BY <1>1, <2>3 DEF IInv, AnswersOwnBooking
    <2>13. ClaimsAccountedFor'
        BY <1>1, <1>2, <2>3, <2>4 DEF IInv, ClaimsAccountedFor
    <2> QED BY <2>6, <2>7, <2>8, <2>10, <2>11, <2>12, <2>13 DEF IInv
<1> QED BY <1>3, <1>4

\* create: the row of the booking is inserted, or its reference is taken.
LEMMA CreateKeeps ==
    ASSUME IInv, NEW r \in Requests, Create(r)
    PROVE  IInv'
<1> DEFINE reference == req[r].reference
           row == [agency |-> req[r].agency, offer |-> req[r].offer]
<1>1. /\ req[r].pc = "claimed" /\ UNCHANGED <<now, offers, chk>>
      /\ reference \in References /\ req[r].offer \in Offers /\ req[r].agency \in Agencies
      /\ bookings \in [References -> BookingRows]
    BY DEF Create, IInv, TypeOK, RequestStates
<1>2. CASE /\ bookings[reference] # NoBooking
           /\ Answer(r, ReplayAnswer(req[r].agency, req[r].offer, bookings[reference]))
           /\ UNCHANGED bookings
    <2>1. PICK pc \in {"in_use", "conflict", "replayed"} :
             /\ Answer(r, pc)
             /\ pc = "replayed" => bookings[reference] = row
        BY <1>1, <1>2, ReplayIsOwn
    <2>2. pc \in Pcs /\ pc \notin Holding /\ (pc \in Booked <=> pc = "replayed")
        BY DEF Pcs, Answers, Holding, Booked
    <2>3. pc = "replayed" => bookings[reference].offer = req[r].offer
        BY <2>1
    <2>4. CASE pc = "replayed"
        BY <1>1, <1>2, <2>1, <2>2, <2>3, <2>4, AnswerKeeps
    <2>5. CASE pc \in {"in_use", "conflict"}
        BY <1>1, <1>2, <2>1, <2>2, <2>5, AnswerKeeps
    <2> QED BY <2>1, <2>4, <2>5
<1>3. CASE /\ bookings[reference] = NoBooking
           /\ bookings' = [bookings EXCEPT ![reference] = row]
           /\ Answer(r, "created")
    <2>1. row \in BookingRows /\ row.offer = req[r].offer /\ row.agency = req[r].agency
        BY <1>1 DEF BookingRows
    <2>2. /\ req' \in [Requests -> RequestStates]
          /\ \A s \in Requests \ {r} : req'[s] = req[s]
          /\ req'[r].pc = "created" /\ req'[r].offer = req[r].offer
          /\ req'[r].reference = reference /\ req'[r].agency = req[r].agency
        BY <1>1, <1>3, AnswerTyped DEF IInv, Pcs, Underway
    <2>3. NoBooking.agency = None
        BY DEF NoBooking
    <2> HIDE DEF reference
    <2>4. row = [agency |-> req'[r].agency, offer |-> req'[r].offer]
        BY <2>2
    <2> HIDE DEF row
    <2>5. /\ bookings' \in [References -> BookingRows] /\ bookings'[reference] = row
          /\ \A x \in References \ {reference} : bookings'[x] = bookings[x]
        BY <1>1, <1>3, <2>1
    <2>6. TypeOK'
        BY <1>1, <2>2, <2>5 DEF IInv, TypeOK, Exists, reference
    <2>7. RootsExist' /\ OneBookableSuccessor'
        BY <1>1 DEF IInv, RootsExist, OneBookableSuccessor, InPlay, Live, Exists
    <2>8. ClaimHeld' /\ ClaimExclusive'
        BY <1>1, <2>2 DEF IInv, ClaimHeld, ClaimExclusive, Holding
    <2>9. AnswersOwnBooking'
        <3>1. ASSUME NEW s \in Requests \ {r}, req[s].pc \in {"created", "booked", "replayed"}
              PROVE  /\ req[s].reference \in References \ {reference}
                     /\ bookings[req[s].reference]
                           = [agency |-> req[s].agency, offer |-> req[s].offer]
            <4>1. /\ req[s].reference \in References /\ req[s].agency # None
                  /\ bookings[req[s].reference]
                        = [agency |-> req[s].agency, offer |-> req[s].offer]
                BY <3>1 DEF IInv, TypeOK, RequestStates, AnswersOwnBooking
            <4>2. bookings[req[s].reference].agency # None
                BY <4>1
            <4> QED BY <1>3, <2>3, <4>1, <4>2
        <3> QED BY <2>2, <2>4, <2>5, <3>1 DEF AnswersOwnBooking
    <2>10. ClaimsAccountedFor'
        <3>1. ASSUME NEW o \in Offers, NEW x \in References, bookings[x].offer = o
              PROVE  bookings'[x].offer = o
            BY <1>3, <2>5, <3>1, NoneAssumption DEF NoBooking
        <3>2. bookings'[reference].offer = req[r].offer
            BY <2>1, <2>5 DEF row
        <3> QED BY <1>1, <2>2, <3>1, <3>2 DEF IInv, ClaimsAccountedFor
    <2> QED BY <2>6, <2>7, <2>8, <2>9, <2>10 DEF IInv
<1> QED BY <1>2, <1>3 DEF Create
-----------------------------------------------------------------------------
\* Every step.
LEMMA StepKeeps == IInv /\ [Next]_vars => IInv'
<1> SUFFICES ASSUME IInv, [Next]_vars PROVE IInv'
    OBVIOUS
<1>1. CASE Tick
    BY <1>1, TickKeeps
<1>2. ASSUME NEW o \in Offers, IssueOffer(o) PROVE IInv'
    BY <1>2, IssueOfferKeeps
<1>3. ASSUME NEW c \in Checks, CheckStep(c) PROVE IInv'
    BY <1>3, CheckReadsKeep, CheckMarkKeeps, CheckSupersedeKeeps, CheckWithdrawKeeps
       DEF CheckStep
<1>4. ASSUME NEW r \in Requests, BookStep(r) PROVE IInv'
    BY <1>4, LookUpKeeps, GateKeeps, ClaimKeeps, CreateKeeps, BookKeeps, CrashKeeps
       DEF BookStep
<1>5. CASE UNCHANGED vars
    <2>1. TypeOK' /\ UNCHANGED UnwrittenRows
        BY <1>5 DEF IInv, TypeOK, Exists, UnwrittenRows, vars
    <2> QED BY <2>1, UnwrittenKeeps
<1> QED BY <1>1, <1>2, <1>3, <1>4, <1>5 DEF Next

\* The inductive invariant holds throughout.
LEMMA Invariance == Spec => []IInv
BY InitInv, StepKeeps, PTL DEF Spec

\* Two calls that reached the supplier hold different offers, hence different
\* results, and a reference leads to one booking with one offer.
LEMMA HoldersDiffer == IInv => OneBookAttempt
<1> SUFFICES ASSUME IInv,
                    NEW r \in Requests, NEW s \in Requests, r # s,
                    req[r].pc = "booked", req[s].pc = "booked"
             PROVE  /\ req[r].reference # req[s].reference
                    /\ offers[req[r].offer].root # offers[req[s].offer].root
    BY DEF OneBookAttempt
<1>1. /\ req[r].offer # req[s].offer
      /\ req[r].offer \in Offers /\ req[s].offer \in Offers
      /\ offers[req[r].offer].invalidatedBy = "claim"
      /\ offers[req[s].offer].invalidatedBy = "claim"
    BY DEF IInv, ClaimExclusive, ClaimHeld, Holding, TypeOK, RequestStates
<1>2. offers[req[r].offer].root # offers[req[s].offer].root
    BY <1>1 DEF IInv, OneBookableSuccessor, InPlay
<1>3. /\ bookings[req[r].reference].offer = req[r].offer
      /\ bookings[req[s].reference].offer = req[s].offer
    <2>1. ASSUME NEW q \in Requests, req[q].pc = "booked"
          PROVE  bookings[req[q].reference].offer = req[q].offer
        <3>1. bookings[req[q].reference] = [agency |-> req[q].agency, offer |-> req[q].offer]
            BY <2>1 DEF IInv, AnswersOwnBooking
        <3> QED BY <3>1
    <2> QED BY <2>1
<1> QED BY <1>1, <1>2, <1>3

(* Offers, bookings, requests and checks keep their types, and whatever a  *)
(* caller refers to exists.                                                *)
THEOREM OffersTyped == Spec => []TypeOK
BY Invariance, PTL DEF IInv

(* Of the offers that came from one search result, at most one is live or  *)
(* claimed for a booking.                                                  *)
THEOREM OneSuccessorOnly == Spec => []OneBookableSuccessor
BY Invariance, PTL DEF IInv

(* One search result and one clientReference reach the supplier's book at  *)
(* most once each.                                                         *)
THEOREM OneAttemptOnly == Spec => []OneBookAttempt
BY Invariance, HoldersDiffer, PTL

(* A caller answered with a booking is answered with its own.              *)
THEOREM AnswersAreOwn == Spec => []AnswersOwnBooking
BY Invariance, PTL DEF IInv

(* Every claim has its booking, a request under way, or a caller that was  *)
(* told or died.                                                           *)
THEOREM NoClaimIsLost == Spec => []ClaimsAccountedFor
BY Invariance, PTL DEF IInv

-----------------------------------------------------------------------------
\* The positions of a list of n are n.
LEMMA IntervalSize ==
    ASSUME NEW n \in Nat PROVE IsFiniteSet(1..n) /\ Cardinality(1..n) = n
BY FS_Interval

LEMMA LeastElement ==
    ASSUME NEW S, S \subseteq Nat, S # {}
    PROVE  \E n \in S : \A m \in S : n <= m
<1>1. PICK n \in S : \A m \in S : ~(<<m, n>> \in OpToRel(<, Nat))
  BY NatLessThanWellFounded, WFMin
<1>2. ASSUME NEW m \in S PROVE n <= m
  <2>1. m < n => <<m, n>> \in OpToRel(<, Nat)
    BY DEF OpToRel
  <2>2. ~(m < n)
    BY <1>1, <2>1
  <2> QED
    BY <2>2
<1> QED
  BY <1>2
-----------------------------------------------------------------------------
(* Sums over finite sets: what the folds of the community modules compute, *)
(* for sets of every size.                                                 *)

\* A set of naturals that holds zero, and the next of each it holds, holds all.
LEMMA Induct ==
    ASSUME NEW S, 0 \in S, \A n \in Nat : n \in S => n + 1 \in S
    PROVE  \A n \in Nat : n \in S
<1> SUFFICES ASSUME NEW m \in Nat, m \notin S PROVE FALSE
  OBVIOUS
<1> DEFINE Bad == {n \in Nat : n \notin S}
<1>1. PICK n \in Bad : \A k \in Bad : n <= k
  BY LeastElement
<1>2. n \in Nat /\ n \notin S /\ n # 0
  BY <1>1
<1>3. n - 1 \in Nat /\ n - 1 \in S
  BY <1>1, <1>2
<1>4. (n - 1) + 1 \in S
  BY <1>3
<1> QED
  BY <1>2, <1>4

\* A function on the subsets of a finite set may be defined by what it does
\* with one element and with the rest: the recursion of the folds.
Unfolds(g, S, base, pick, step) ==
    \A s \in SUBSET S :
        g[s] = IF s = {} THEN base ELSE step[<<pick[s], g[s \ {pick[s]}]>>]

LEMMA RecursionOnSubsets ==
    ASSUME NEW S, IsFiniteSet(S), NEW V, NEW base \in V,
           NEW pick, \A s \in SUBSET S : s # {} => pick[s] \in s,
           NEW step \in [S \X V -> V]
    PROVE  \E g \in [SUBSET S -> V] : Unfolds(g, S, base, pick, step)
<1> DEFINE Small(m) == {s \in SUBSET S : Cardinality(s) <= m}
           Solves(g, m) == /\ g \in [Small(m) -> V]
                           /\ \A s \in Small(m) :
                                 g[s] = IF s = {} THEN base ELSE step[<<pick[s], g[s \ {pick[s]}]>>]
           Solved == {m \in Nat : \E g \in [Small(m) -> V] : Solves(g, m)}
<1>1. \A s \in SUBSET S : IsFiniteSet(s) /\ Cardinality(s) \in Nat /\ Cardinality(s) <= Cardinality(S)
  BY FS_Subset, FS_CardinalityType
<1>2. \A s \in SUBSET S : s # {} => s \ {pick[s]} \in SUBSET S
                                    /\ Cardinality(s \ {pick[s]}) = Cardinality(s) - 1
  BY <1>1, FS_RemoveElement
<1>3. 0 \in Solved
  <2>1. \A s \in Small(0) : s = {}
    BY <1>1, FS_EmptySet
  <2> DEFINE g == [s \in Small(0) |-> base]
  <2>2. Solves(g, 0)
    BY <2>1
  <2> QED
    BY <2>2
<1>4. ASSUME NEW m \in Nat, m \in Solved PROVE m + 1 \in Solved
  <2>1. PICK g \in [Small(m) -> V] : Solves(g, m)
    BY <1>4
  <2> DEFINE h == [s \in Small(m + 1) |->
                      IF s \in Small(m) THEN g[s] ELSE step[<<pick[s], g[s \ {pick[s]}]>>]]
  <2>2. ASSUME NEW s \in Small(m + 1), s # {}
        PROVE  s \ {pick[s]} \in Small(m) /\ pick[s] \in S
    BY <1>1, <1>2, <2>2
  <2>3. ASSUME NEW s \in Small(m + 1), s \notin Small(m) PROVE s # {}
    BY <1>1, <2>3, FS_EmptySet
  <2>4. Small(m) \subseteq Small(m + 1)
    BY <1>1
  <2> HIDE DEF Small
  <2>5. h \in [Small(m + 1) -> V]
    BY <2>1, <2>2, <2>3
  <2>6. ASSUME NEW s \in Small(m) PROVE h[s] = g[s]
    BY <2>4
  <2>7. ASSUME NEW s \in Small(m + 1)
        PROVE  h[s] = IF s = {} THEN base ELSE step[<<pick[s], h[s \ {pick[s]}]>>]
    <3>1. CASE s \in Small(m)
      <4>1. h[s] = g[s] /\ (s # {} => h[s \ {pick[s]}] = g[s \ {pick[s]}])
        BY <2>2, <2>6, <2>7, <3>1
      <4> QED
        BY <2>1, <3>1, <4>1
    <3>2. CASE s \notin Small(m)
      <4>1. s # {} /\ h[s \ {pick[s]}] = g[s \ {pick[s]}]
        BY <2>2, <2>3, <2>6, <2>7, <3>2
      <4> QED
        BY <2>7, <3>2, <4>1
    <3> QED
      BY <3>1, <3>2
  <2>8. Solves(h, m + 1)
    BY <2>5, <2>7
  <2>9. m + 1 \in Nat
    OBVIOUS
  <2> HIDE DEF Solves, h
  <2> QED
    BY <2>5, <2>8, <2>9
<1>5. \A m \in Nat : m \in Solved
  BY <1>3, <1>4, Induct
<1>6. Small(Cardinality(S)) = SUBSET S /\ Cardinality(S) \in Nat
  BY <1>1, FS_CardinalityType
<1>7. PICK g \in [Small(Cardinality(S)) -> V] : Solves(g, Cardinality(S))
  BY <1>5, <1>6
<1>8. g \in [SUBSET S -> V] /\ Unfolds(g, S, base, pick, step)
  BY <1>6, <1>7 DEF Unfolds
<1> QED
  BY <1>8

\* Induction over the subsets of a finite set, an element at a time.
LEMMA SubsetInduct ==
    ASSUME NEW S, IsFiniteSet(S), NEW Good, {} \in Good,
           \A s \in SUBSET S : s # {} /\ (\A x \in s : s \ {x} \in Good) => s \in Good
    PROVE  \A s \in SUBSET S : s \in Good
<1> DEFINE Sizes == {m \in Nat : \A s \in SUBSET S : Cardinality(s) <= m => s \in Good}
<1>1. \A s \in SUBSET S : IsFiniteSet(s) /\ Cardinality(s) \in Nat
  BY FS_Subset, FS_CardinalityType
<1>2. 0 \in Sizes
  <2>1. \A s \in SUBSET S : Cardinality(s) <= 0 => s = {}
    BY <1>1, FS_EmptySet
  <2> QED
    BY <2>1
<1>3. ASSUME NEW m \in Nat, m \in Sizes PROVE m + 1 \in Sizes
  <2>1. ASSUME NEW s \in SUBSET S, Cardinality(s) <= m + 1, NEW x \in s PROVE s \ {x} \in Good
    <3>1. Cardinality(s \ {x}) = Cardinality(s) - 1
      BY <1>1, FS_RemoveElement
    <3>2. s \ {x} \in SUBSET S /\ Cardinality(s \ {x}) <= m
      BY <1>1, <2>1, <3>1
    <3> QED
      BY <1>3, <3>2
  <2>2. ASSUME NEW s \in SUBSET S, Cardinality(s) <= m + 1 PROVE s \in Good
    <3>1. \A x \in s : s \ {x} \in Good
      BY <2>1, <2>2
    <3> QED
      BY <3>1
  <2> QED
    BY <2>2
<1>4. \A m \in Nat : m \in Sizes
  BY <1>2, <1>3, Induct
<1> QED
  BY <1>1, <1>4

\* The sums of f over the subsets of S: one value after the other, in some order.
AddsUp(f, S, g) ==
    /\ g \in [SUBSET S -> Int] /\ g[{}] = 0
    /\ \A s \in SUBSET S : s # {} => \E x \in s : g[s] = f[x] + g[s \ {x}]

\* SumFunctionOnSet adds the values up.
LEMMA SumAddsUp ==
    ASSUME NEW S, IsFiniteSet(S), NEW f, \A x \in S : f[x] \in Int
    PROVE  \E g : AddsUp(f, S, g) /\ SumFunctionOnSet(f, S) = g[S]
<1> DEFINE iter == CHOOSE g : g = [s \in SUBSET S |->
                      IF s = {} THEN 0
                      ELSE f[CHOOSE x \in s : TRUE] + g[s \ {CHOOSE x \in s : TRUE}]]
           pick == [s \in SUBSET S |-> CHOOSE x \in s : TRUE]
           step == [z \in S \X Int |-> f[z[1]] + z[2]]
<1>1. SumFunctionOnSet(f, S) = iter[S]
  BY DEF SumFunctionOnSet, FoldFunctionOnSet, MapThenFoldSet
<1>2. \E g : g = [s \in SUBSET S |->
                     IF s = {} THEN 0
                     ELSE f[CHOOSE x \in s : TRUE] + g[s \ {CHOOSE x \in s : TRUE}]]
  <2>1. \A s \in SUBSET S : s # {} => pick[s] \in s
    OBVIOUS
  <2>2. step \in [S \X Int -> Int] /\ 0 \in Int
    OBVIOUS
  <2> HIDE DEF step, pick
  <2>3. PICK g \in [SUBSET S -> Int] : Unfolds(g, S, 0, pick, step)
    BY <2>1, <2>2, RecursionOnSubsets
  <2>4. ASSUME NEW s \in SUBSET S
        PROVE  g[s] = IF s = {} THEN 0 ELSE f[pick[s]] + g[s \ {pick[s]}]
    <3>1. s # {} => pick[s] \in S /\ s \ {pick[s]} \in SUBSET S
      BY <2>1
    <3>2. s # {} => step[<<pick[s], g[s \ {pick[s]}]>>] = f[pick[s]] + g[s \ {pick[s]}]
      BY <3>1 DEF step
    <3> QED
      BY <2>3, <3>2 DEF Unfolds
  <2>5. \A s \in SUBSET S : pick[s] = CHOOSE x \in s : TRUE
    BY DEF pick
  <2>6. g = [s \in SUBSET S |->
               IF s = {} THEN 0
               ELSE f[CHOOSE x \in s : TRUE] + g[s \ {CHOOSE x \in s : TRUE}]]
    BY <2>4, <2>5
  <2> QED
    BY <2>6
<1>3. iter = [s \in SUBSET S |->
                IF s = {} THEN 0
                ELSE f[CHOOSE x \in s : TRUE] + iter[s \ {CHOOSE x \in s : TRUE}]]
  BY <1>2
<1> HIDE DEF iter
<1>4. DOMAIN iter = SUBSET S /\ iter[{}] = 0
  BY <1>3
<1>5. ASSUME NEW s \in SUBSET S, s # {}
      PROVE  \E x \in s : iter[s] = f[x] + iter[s \ {x}]
  <2>1. (CHOOSE x \in s : TRUE) \in s
    BY <1>5
  <2>2. iter[s] = f[CHOOSE x \in s : TRUE] + iter[s \ {CHOOSE x \in s : TRUE}]
    BY <1>3, <1>5
  <2> QED
    BY <2>1, <2>2
<1>6. \A s \in SUBSET S : iter[s] \in Int
  <2> DEFINE Good == {s \in SUBSET S : iter[s] \in Int}
  <2>1. {} \in Good
    BY <1>4
  <2>2. ASSUME NEW s \in SUBSET S, s # {}, \A x \in s : s \ {x} \in Good PROVE s \in Good
    <3>1. PICK x \in s : iter[s] = f[x] + iter[s \ {x}]
      BY <1>5, <2>2
    <3>2. iter[s \ {x}] \in Int
      BY <2>2
    <3> QED
      BY <3>1, <3>2
  <2>4. \A s \in SUBSET S : s # {} /\ (\A x \in s : s \ {x} \in Good) => s \in Good
    BY <2>2
  <2> HIDE DEF Good
  <2>3. \A s \in SUBSET S : s \in Good
    BY <2>1, <2>4, SubsetInduct
  <2> QED
    BY <2>3 DEF Good
<1>7. iter \in [SUBSET S -> Int]
  <2>1. iter = [s \in SUBSET S |-> iter[s]]
    BY <1>3, <1>4
  <2> QED
    BY <1>6, <2>1
<1> QED
  BY <1>1, <1>4, <1>5, <1>7 DEF AddsUp

-----------------------------------------------------------------------------
\* Sets listed element by element are finite.
LEMMA FewAreFinite ==
    ASSUME NEW a, NEW b, NEW c PROVE IsFiniteSet({a, b}) /\ IsFiniteSet({a, b, c})
<1>1. IsFiniteSet({a}) /\ {a, b} = {a} \cup {b} /\ {a, b, c} = {a, b} \cup {c}
  BY FS_Singleton
<1>2. IsFiniteSet({a, b})
  BY <1>1, FS_AddElement
<1> QED
  BY <1>1, <1>2, FS_AddElement

\* A sum takes its terms in any order.
LEMMA SumInAnyOrder ==
    ASSUME NEW S, IsFiniteSet(S), NEW f, \A x \in S : f[x] \in Int,
           NEW g, AddsUp(f, S, g)
    PROVE  \A s \in SUBSET S : \A x \in s : g[s] = f[x] + g[s \ {x}]
<1> DEFINE Free(s) == \A x \in s : g[s] = f[x] + g[s \ {x}]
           Good == {s \in SUBSET S : \A t \in SUBSET s : Free(t)}
<1>0. /\ g \in [SUBSET S -> Int]
      /\ \A s \in SUBSET S : s # {} => \E x \in s : g[s] = f[x] + g[s \ {x}]
  BY DEF AddsUp
<1>1. {} \in Good
  OBVIOUS
<1>2. ASSUME NEW s \in SUBSET S, s # {}, \A y \in s : s \ {y} \in Good PROVE s \in Good
  <2>1. ASSUME NEW t \in SUBSET s, t # s PROVE Free(t)
    <3>1. PICK y \in s : y \notin t
      BY <2>1
    <3>2. t \in SUBSET (s \ {y})
      BY <3>1
    <3> QED
      BY <1>2, <3>2
  <2>2. Free(s)
    <3>1. PICK y \in s : g[s] = f[y] + g[s \ {y}]
      BY <1>0, <1>2
    <3>2. ASSUME NEW x \in s, x # y PROVE g[s] = f[x] + g[s \ {x}]
      <4>1. Free(s \ {x}) /\ Free(s \ {y})
        BY <2>1
      <4>2. (s \ {x}) \ {y} = (s \ {y}) \ {x}
        OBVIOUS
      <4>3. g[s \ {x}] = f[y] + g[(s \ {y}) \ {x}] /\ g[s \ {y}] = f[x] + g[(s \ {y}) \ {x}]
        BY <3>2, <4>1, <4>2
      <4>4. g[(s \ {y}) \ {x}] \in Int /\ f[x] \in Int /\ f[y] \in Int
        BY <1>0
      <4> QED
        BY <3>1, <4>3, <4>4
    <3> QED
      BY <3>1, <3>2
  <2> QED
    BY <2>1, <2>2
<1>4. \A s \in SUBSET S : s # {} /\ (\A x \in s : s \ {x} \in Good) => s \in Good
  BY <1>2
<1> HIDE DEF Good
<1>3. \A s \in SUBSET S : s \in Good
  BY <1>1, <1>4, SubsetInduct
<1> QED
  BY <1>3 DEF Good

\* A sum is any one of its terms and the sum of the others.
LEMMA SumTakesOut ==
    ASSUME NEW S, IsFiniteSet(S), NEW f, \A x \in S : f[x] \in Int, NEW e \in S
    PROVE  /\ SumFunctionOnSet(f, S) \in Int
           /\ SumFunctionOnSet(f, S) = f[e] + SumFunctionOnSet(f, S \ {e})
<1> DEFINE T == S \ {e}
<1>1. IsFiniteSet(T) /\ \A x \in T : f[x] \in Int
  BY FS_RemoveElement
<1>2. T \in SUBSET S
  OBVIOUS
<1> HIDE DEF T
<1>4. PICK g : AddsUp(f, S, g) /\ SumFunctionOnSet(f, S) = g[S]
  BY SumAddsUp
<1>5. PICK h : AddsUp(f, T, h) /\ SumFunctionOnSet(f, T) = h[T]
  BY <1>1, SumAddsUp
<1>6. ASSUME NEW s \in SUBSET S, NEW x \in s PROVE g[s] = f[x] + g[s \ {x}]
  <2>1. IsFiniteSet(S) /\ (\A y \in S : f[y] \in Int) /\ AddsUp(f, S, g)
    BY <1>4
  <2> QED
    BY <2>1, SumInAnyOrder
<1> DEFINE Good == {s \in SUBSET T : g[s] = h[s]}
<1>7. {} \in Good
  BY <1>4, <1>5 DEF AddsUp
<1>8. ASSUME NEW s \in SUBSET T, s # {}, \A x \in s : s \ {x} \in Good PROVE s \in Good
  <2>1. PICK x \in s : h[s] = f[x] + h[s \ {x}]
    BY <1>5, <1>8 DEF AddsUp
  <2>4. s \in SUBSET S /\ s \ {x} \in SUBSET T
    BY <1>2
  <2>2. g[s] = f[x] + g[s \ {x}]
    BY <1>6, <2>4
  <2>3. g[s \ {x}] = h[s \ {x}]
    BY <1>8, <2>4
  <2> QED
    BY <2>1, <2>2, <2>3
<1>9. \A s \in SUBSET T : s # {} /\ (\A x \in s : s \ {x} \in Good) => s \in Good
  BY <1>8
<1> HIDE DEF Good
<1>10. \A s \in SUBSET T : s \in Good
  BY <1>1, <1>7, <1>9, SubsetInduct
<1>11. g[T] = h[T]
  BY <1>10 DEF Good
<1>12. g[S] = f[e] + g[T]
  BY <1>6 DEF T
<1> QED
  BY <1>4, <1>5, <1>11, <1>12 DEF T, AddsUp

\* The sum over nothing.
LEMMA SumOfNone ==
    ASSUME NEW f PROVE SumFunctionOnSet(f, {}) = 0
<1>1. IsFiniteSet({}) /\ \A x \in {} : f[x] \in Int
  BY FS_EmptySet
<1>2. PICK g : AddsUp(f, {}, g) /\ SumFunctionOnSet(f, {}) = g[{}]
  BY <1>1, SumAddsUp
<1> QED
  BY <1>2 DEF AddsUp

\* The sum over one element.
LEMMA SumOfOne ==
    ASSUME NEW f, NEW e, f[e] \in Int PROVE SumFunctionOnSet(f, {e}) = f[e]
<1>1. IsFiniteSet({e}) /\ (\A x \in {e} : f[x] \in Int) /\ e \in {e} /\ {e} \ {e} = {}
  BY FS_Singleton
<1>2. SumFunctionOnSet(f, {e}) = f[e] + SumFunctionOnSet(f, {e} \ {e})
  BY <1>1, SumTakesOut
<1> QED
  BY <1>1, <1>2, SumOfNone

\* The sum over two.
LEMMA SumOverTwo ==
    ASSUME NEW f, NEW d, NEW e, d # e, f[d] \in Int, f[e] \in Int
    PROVE  SumFunctionOnSet(f, {d, e}) = f[d] + f[e]
<1>1. IsFiniteSet({d, e}) /\ (\A x \in {d, e} : f[x] \in Int) /\ d \in {d, e} /\ {d, e} \ {d} = {e}
  BY FewAreFinite
<1>2. SumFunctionOnSet(f, {d, e}) = f[d] + SumFunctionOnSet(f, {d, e} \ {d})
  BY <1>1, SumTakesOut
<1> QED
  BY <1>1, <1>2, SumOfOne

\* The sum of a pair.
LEMMA SumOfTwo ==
    ASSUME NEW a \in Int, NEW b \in Int PROVE SumFunction(<<a, b>>) = a + b
<1> DEFINE f == <<a, b>>
<1>1. DOMAIN f = {1, 2} /\ f[1] = a /\ f[2] = b /\ 1 # 2
  OBVIOUS
<1>2. SumFunction(f) = SumFunctionOnSet(f, {1, 2})
  BY <1>1 DEF SumFunction
<1> HIDE DEF f
<1>3. SumFunctionOnSet(f, {1, 2}) = f[1] + f[2]
  BY <1>1, SumOverTwo
<1> QED
  BY <1>1, <1>2, <1>3 DEF f

\* The sum of three.
LEMMA SumOfThree ==
    ASSUME NEW f, DOMAIN f = 1..3, f[1] \in Int, f[2] \in Int, f[3] \in Int
    PROVE  SumFunction(f) = f[1] + f[2] + f[3]
<1> DEFINE S == {1, 2, 3}
<1>1. 1..3 = S /\ 2 # 3 /\ (\A x \in S : f[x] \in Int) /\ 1 \in S /\ S \ {1} = {2, 3}
  OBVIOUS
<1>2. IsFiniteSet(S)
  BY FewAreFinite
<1>3. SumFunction(f) = SumFunctionOnSet(f, S)
  BY <1>1 DEF SumFunction
<1> HIDE DEF S
<1>4. SumFunctionOnSet(f, S) = f[1] + SumFunctionOnSet(f, S \ {1})
  BY <1>1, <1>2, SumTakesOut
<1> DEFINE T == {2, 3}
<1>5. SumFunctionOnSet(f, T) = f[2] + f[3]
  BY <1>1, SumOverTwo
<1>6. S \ {1} = T
  BY <1>1
<1> HIDE DEF T
<1>7. \A x, y, z \in Int : x + (y + z) = x + y + z
  OBVIOUS
<1>8. SumFunction(f) = f[1] + (f[2] + f[3])
  BY <1>3, <1>4, <1>5, <1>6
<1> QED
  BY <1>7, <1>8
-----------------------------------------------------------------------------
(* Rounding.                                                               *)

\* Quotient and remainder.
LEMMA Division ==
    ASSUME NEW x \in Int, NEW d \in Nat \ {0}
    PROVE  /\ x \div d \in Int /\ x % d \in 0..(d - 1)
           /\ x = d * (x \div d) + (x % d)
           /\ x >= 0 => x \div d >= 0
OBVIOUS

\* The nearest whole number, ties away from zero: no other is nearer.
LEMMA RoundsToNearest ==
    ASSUME NEW x \in Int, NEW d \in Nat \ {0}
    PROVE  /\ DivideRoundHalfAwayFromZero(x, d) \in Int
           /\ x >= 0 => DivideRoundHalfAwayFromZero(x, d) >= 0
           /\ 2 * Magnitude(DivideRoundHalfAwayFromZero(x, d) * d - x) <= d
<1> DEFINE m == Magnitude(x)
<1>1. m \in Nat /\ m = IF x < 0 THEN -x ELSE x
  BY DEF Magnitude
<1> HIDE DEF m
<1>2. /\ m \div d \in Int /\ m % d \in 0..(d - 1)
      /\ m = d * (m \div d) + (m % d) /\ m \div d >= 0
  BY <1>1
<1>3. PICK q \in Nat, r \in 0..(d - 1) : q = m \div d /\ r = m % d /\ m = d * q + r
  BY <1>2
<1>4. DivideRoundHalfAwayFromZero(x, d) =
         WithSignOf(x, q + (IF 2 * r >= d THEN 1 ELSE 0))
  BY <1>3 DEF DivideRoundHalfAwayFromZero, m
<1>5. CASE 2 * r >= d
  <2>1. DivideRoundHalfAwayFromZero(x, d) = IF x < 0 THEN -(q + 1) ELSE q + 1
    BY <1>4, <1>5 DEF WithSignOf
  <2>2. (q + 1) * d = d * q + d /\ (-(q + 1)) * d = -(d * q + d) /\ d * q \in Int
    OBVIOUS
  <2>3. CASE x < 0
    <3>1. DivideRoundHalfAwayFromZero(x, d) * d - x = r - d
      BY <1>1, <1>3, <2>1, <2>2, <2>3
    <3> QED
      BY <1>5, <2>1, <2>3, <3>1 DEF Magnitude
  <2>4. CASE ~(x < 0)
    <3>1. DivideRoundHalfAwayFromZero(x, d) * d - x = d - r
      BY <1>1, <1>3, <2>1, <2>2, <2>4
    <3> QED
      BY <1>5, <2>1, <2>4, <3>1 DEF Magnitude
  <2> QED
    BY <2>3, <2>4
<1>6. CASE ~(2 * r >= d)
  <2>1. DivideRoundHalfAwayFromZero(x, d) = IF x < 0 THEN -q ELSE q
    BY <1>4, <1>6 DEF WithSignOf
  <2>2. q * d = d * q /\ (-q) * d = -(d * q) /\ d * q \in Int
    OBVIOUS
  <2>3. CASE x < 0
    <3>1. DivideRoundHalfAwayFromZero(x, d) * d - x = r
      BY <1>1, <1>3, <2>1, <2>2, <2>3
    <3> QED
      BY <1>6, <2>1, <2>3, <3>1 DEF Magnitude
  <2>4. CASE ~(x < 0)
    <3>1. DivideRoundHalfAwayFromZero(x, d) * d - x = -r
      BY <1>1, <1>3, <2>1, <2>2, <2>4
    <3> QED
      BY <1>6, <2>1, <2>4, <3>1 DEF Magnitude
  <2> QED
    BY <2>3, <2>4
<1> QED
  BY <1>5, <1>6
-----------------------------------------------------------------------------
(* The markup rules: selectRule, whatever the length of the list.          *)

\* A nonempty set of positions has a last one, and it is Max.
LEMMA LastOf ==
    ASSUME NEW n \in Nat, NEW s, s \subseteq 1..n, s # {}
    PROVE  Max(s) \in s /\ \A i \in s : i <= Max(s)
<1> DEFINE Gaps == {n - i : i \in s}
<1>0. PICK e \in s : TRUE
  OBVIOUS
<1>1. Gaps \subseteq Nat /\ Gaps # {}
  <2>1. n - e \in Gaps
    BY <1>0
  <2>2. ASSUME NEW i \in s PROVE n - i \in Nat
    <3>1. i \in 1..n
      OBVIOUS
    <3> QED
      BY <3>1
  <2> QED
    BY <2>1, <2>2
<1> HIDE DEF Gaps
<1>2. PICK g \in Gaps : \A k \in Gaps : g <= k
  BY <1>1, LeastElement
<1>3. PICK last \in s : g = n - last
  BY DEF Gaps
<1>4. ASSUME NEW i \in s PROVE last >= i
  <2>1. n - i \in Gaps
    BY DEF Gaps
  <2>2. n - last <= n - i /\ last \in Int /\ i \in Int
    BY <1>2, <1>3, <2>1
  <2> QED
    BY <2>2
<1>5. Max(s) \in s /\ \A i \in s : Max(s) >= i
  BY <1>4 DEF Max
<1>6. s \subseteq Int
  OBVIOUS
<1> QED
  BY <1>5, <1>6

\* What selectRule holds after its first rules.
Winner(rules, context, w, n) ==
    /\ w[0] = {}
    /\ \A k \in 1..n :
          w[k] = IF /\ RuleMatchesContext(rules[k], context)
                    /\ \A x \in w[k - 1] : TakesOver(rules[k], x)
                 THEN {rules[k]} ELSE w[k - 1]

\* The fold of SelectRule is the loop of selectRule: rule after rule.
LEMMA SelectRuleVisits ==
    ASSUME NEW n \in Nat, NEW rules, DOMAIN rules = 1..n, NEW context
    PROVE  \E w : Winner(rules, context, w, n) /\ SelectRule(rules, context) = w[n]
<1> DEFINE S == 1..n
           V == {{}} \cup {{rules[i]} : i \in S}
           Better(i, winner) == /\ RuleMatchesContext(rules[i], context)
                                /\ \A x \in winner : TakesOver(rules[i], x)
           pick == [s \in SUBSET S |-> Max(s)]
           step == [z \in S \X V |-> IF Better(z[1], z[2]) THEN {rules[z[1]]} ELSE z[2]]
           iter == CHOOSE g : g = [s \in SUBSET S |->
                      IF s = {} THEN {}
                      ELSE IF Better(Max(s), g[s \ {Max(s)}]) THEN {rules[Max(s)]}
                           ELSE g[s \ {Max(s)}]]
<1>1. SelectRule(rules, context) = iter[S]
  BY DEF SelectRule, FoldLeft, MapThenFoldSet
<1>2. IsFiniteSet(S)
  BY IntervalSize
<1>3. \A s \in SUBSET S : s # {} => Max(s) \in s /\ \A i \in s : i <= Max(s)
  BY LastOf
<1>4. {} \in V /\ step \in [S \X V -> V] /\ \A s \in SUBSET S : s # {} => pick[s] \in s
  BY <1>3
<1>5. \E g : g = [s \in SUBSET S |->
                    IF s = {} THEN {}
                    ELSE IF Better(Max(s), g[s \ {Max(s)}]) THEN {rules[Max(s)]}
                         ELSE g[s \ {Max(s)}]]
  <2> HIDE DEF step, pick, V
  <2>1. PICK g \in [SUBSET S -> V] : Unfolds(g, S, {}, pick, step)
    BY <1>2, <1>4, RecursionOnSubsets
  <2> HIDE DEF Better
  <2>2. ASSUME NEW s \in SUBSET S
        PROVE  g[s] = IF s = {} THEN {}
                      ELSE IF Better(Max(s), g[s \ {Max(s)}]) THEN {rules[Max(s)]}
                           ELSE g[s \ {Max(s)}]
    <3>1. s # {} => Max(s) \in S /\ s \ {Max(s)} \in SUBSET S /\ g[s \ {Max(s)}] \in V
      BY <1>3
    <3>2. pick[s] = Max(s)
      BY DEF pick
    <3>3. s # {} => step[<<Max(s), g[s \ {Max(s)}]>>] =
                       IF Better(Max(s), g[s \ {Max(s)}]) THEN {rules[Max(s)]}
                       ELSE g[s \ {Max(s)}]
      BY <3>1 DEF step
    <3> QED
      BY <2>1, <3>2, <3>3 DEF Unfolds
  <2>3. g = [s \in SUBSET S |->
               IF s = {} THEN {}
               ELSE IF Better(Max(s), g[s \ {Max(s)}]) THEN {rules[Max(s)]}
                    ELSE g[s \ {Max(s)}]]
    BY <2>1, <2>2
  <2> QED
    BY <2>3
<1> HIDE DEF Better
<1>6. iter = [s \in SUBSET S |->
                IF s = {} THEN {}
                ELSE IF Better(Max(s), iter[s \ {Max(s)}]) THEN {rules[Max(s)]}
                     ELSE iter[s \ {Max(s)}]]
  BY <1>5
<1> HIDE DEF iter
<1> DEFINE w == [k \in 0..n |-> iter[1..k]]
<1>7. w[0] = {} /\ w[n] = iter[S]
  BY <1>6
<1>8. ASSUME NEW k \in 1..n
      PROVE  w[k] = IF Better(k, w[k - 1]) THEN {rules[k]} ELSE w[k - 1]
  <2> DEFINE U == 1..k
  <2>1. U \in SUBSET S /\ U # {}
    <3>1. k \in U
      OBVIOUS
    <3>2. ASSUME NEW i \in U PROVE i \in S
      OBVIOUS
    <3> HIDE DEF U
    <3> QED
      BY <3>1, <3>2
  <2>4. k \in 0..n /\ k - 1 \in 0..n
    OBVIOUS
  <2>2. Max(U) = k
    <3>1. Max(U) \in U /\ \A i \in U : i <= Max(U)
      BY <1>3, <2>1
    <3> QED
      BY <3>1
  <2>3. U \ {k} = 1..(k - 1)
    OBVIOUS
  <2> HIDE DEF U
  <2>6. iter[U] = IF Better(Max(U), iter[U \ {Max(U)}]) THEN {rules[Max(U)]}
                  ELSE iter[U \ {Max(U)}]
    BY <1>6, <2>1
  <2>5. iter[U] = IF Better(k, iter[1..(k - 1)]) THEN {rules[k]} ELSE iter[1..(k - 1)]
    BY <2>2, <2>3, <2>6
  <2> QED
    BY <2>4, <2>5 DEF U
<1>9. Winner(rules, context, w, n)
  BY <1>7, <1>8 DEF Winner, Better
<1> QED
  BY <1>1, <1>7, <1>9

-----------------------------------------------------------------------------
\* What selectRule compares of a rule.
Ranked(rule) == rule.priority \in Int /\ rule.id \in Int

\* What an element adds, if it is there.
Term(f, S, e) == IF e \in S THEN f[e] ELSE 0

\* A term that may be missing, and the sum of the others.
LEMMA SumDrops ==
    ASSUME NEW S, IsFiniteSet(S), NEW f, \A x \in S : f[x] \in Int, NEW e
    PROVE  /\ IsFiniteSet(S \ {e})
           /\ SumFunctionOnSet(f, S) = Term(f, S, e) + SumFunctionOnSet(f, S \ {e})
           /\ SumFunctionOnSet(f, S) \in Int
<1>0. IsFiniteSet(S \ {e})
  <2>1. S \ {e} \in SUBSET S
    OBVIOUS
  <2> QED
    BY <2>1, FS_Subset
<1>1. CASE e \in S
  BY <1>0, <1>1, SumTakesOut DEF Term
<1>2. CASE e \notin S
  <2>1. S \ {e} = S
    BY <1>2
  <2>2. SumFunctionOnSet(f, S) \in Int
    <3>1. CASE S = {}
      BY <3>1, SumOfNone
    <3>2. CASE S # {}
      BY <3>2, SumTakesOut
    <3> QED
      BY <3>1, <3>2
  <2> QED
    BY <1>0, <1>2, <2>1, <2>2 DEF Term
<1> QED
  BY <1>1, <1>2

\* ruleSpecificity adds up the weights of the columns.
LEMMA SpecificityAdds ==
    ASSUME NEW rule
    PROVE  LET bit(b) == IF b \in RuleBits(rule) THEN b ELSE 0
           IN  RuleSpecificity(rule) = bit(1) + bit(2) + bit(4) + bit(8) + bit(16) + bit(32)
<1> DEFINE f == [b \in ScopeBits |-> b]
           B == RuleBits(rule)
           B1 == B \ {1}
           B2 == B1 \ {2}
           B4 == B2 \ {4}
           B8 == B4 \ {8}
           B16 == B8 \ {16}
           B32 == B16 \ {32}
           bit(b) == IF b \in B THEN b ELSE 0
<1>1. B \subseteq ScopeBits /\ B32 = {}
  BY DEF RuleBits, ScopeBits
<1>2. \A b \in ScopeBits : f[b] = b /\ f[b] \in Int
  BY DEF ScopeBits
<1>3. IsFiniteSet(B)
  <2>1. IsFiniteSet(ScopeBits)
    <3>1. ScopeBits \subseteq 1..32 /\ 32 \in Nat
      BY DEF ScopeBits
    <3> QED
      BY <3>1, IntervalSize, FS_Subset
  <2> QED
    BY <1>1, <2>1, FS_Subset
<1>4. /\ B1 \subseteq B /\ B2 \subseteq B /\ B4 \subseteq B /\ B8 \subseteq B /\ B16 \subseteq B
      /\ (2 \in B1 <=> 2 \in B) /\ (4 \in B2 <=> 4 \in B) /\ (8 \in B4 <=> 8 \in B)
      /\ (16 \in B8 <=> 16 \in B) /\ (32 \in B16 <=> 32 \in B)
  OBVIOUS
<1>5. RuleSpecificity(rule) = SumFunctionOnSet(f, B)
  BY DEF RuleSpecificity
<1> HIDE DEF f, B, B1, B2, B4, B8, B16, B32
<1>14. \A b \in B : f[b] \in Int
  BY <1>1, <1>2
<1>6. SumFunctionOnSet(f, B) = Term(f, B, 1) + SumFunctionOnSet(f, B1)
  <2>1. IsFiniteSet(B) /\ \A b \in B : f[b] \in Int
    BY <1>3, <1>4, <1>14, FS_Subset
  <2>2. SumFunctionOnSet(f, B) = Term(f, B, 1) + SumFunctionOnSet(f, B \ {1})
    BY <2>1, SumDrops
  <2> QED
    BY <2>2 DEF B1
<1>7. SumFunctionOnSet(f, B1) = Term(f, B1, 2) + SumFunctionOnSet(f, B2)
  <2>1. IsFiniteSet(B1) /\ \A b \in B1 : f[b] \in Int
    BY <1>3, <1>4, <1>14, FS_Subset
  <2>2. SumFunctionOnSet(f, B1) = Term(f, B1, 2) + SumFunctionOnSet(f, B1 \ {2})
    BY <2>1, SumDrops
  <2> QED
    BY <2>2 DEF B2
<1>8. SumFunctionOnSet(f, B2) = Term(f, B2, 4) + SumFunctionOnSet(f, B4)
  <2>1. IsFiniteSet(B2) /\ \A b \in B2 : f[b] \in Int
    BY <1>3, <1>4, <1>14, FS_Subset
  <2>2. SumFunctionOnSet(f, B2) = Term(f, B2, 4) + SumFunctionOnSet(f, B2 \ {4})
    BY <2>1, SumDrops
  <2> QED
    BY <2>2 DEF B4
<1>9. SumFunctionOnSet(f, B4) = Term(f, B4, 8) + SumFunctionOnSet(f, B8)
  <2>1. IsFiniteSet(B4) /\ \A b \in B4 : f[b] \in Int
    BY <1>3, <1>4, <1>14, FS_Subset
  <2>2. SumFunctionOnSet(f, B4) = Term(f, B4, 8) + SumFunctionOnSet(f, B4 \ {8})
    BY <2>1, SumDrops
  <2> QED
    BY <2>2 DEF B8
<1>10. SumFunctionOnSet(f, B8) = Term(f, B8, 16) + SumFunctionOnSet(f, B16)
  <2>1. IsFiniteSet(B8) /\ \A b \in B8 : f[b] \in Int
    BY <1>3, <1>4, <1>14, FS_Subset
  <2>2. SumFunctionOnSet(f, B8) = Term(f, B8, 16) + SumFunctionOnSet(f, B8 \ {16})
    BY <2>1, SumDrops
  <2> QED
    BY <2>2 DEF B16
<1>11. SumFunctionOnSet(f, B16) = Term(f, B16, 32) + SumFunctionOnSet(f, B32)
  <2>1. IsFiniteSet(B16) /\ \A b \in B16 : f[b] \in Int
    BY <1>3, <1>4, <1>14, FS_Subset
  <2>2. SumFunctionOnSet(f, B16) = Term(f, B16, 32) + SumFunctionOnSet(f, B16 \ {32})
    BY <2>1, SumDrops
  <2> QED
    BY <2>2 DEF B32
<1>12. SumFunctionOnSet(f, B32) = 0
  BY <1>1, SumOfNone
<1>13. f[1] = 1 /\ f[2] = 2 /\ f[4] = 4 /\ f[8] = 8 /\ f[16] = 16 /\ f[32] = 32
  BY <1>2 DEF ScopeBits
<1> QED
  BY <1>4, <1>5, <1>6, <1>7, <1>8, <1>9, <1>10, <1>11, <1>12, <1>13 DEF B, Term

-----------------------------------------------------------------------------
\* The bit of each column.
LEMMA BitsOfRule ==
    ASSUME NEW rule
    PROVE  /\ 1 \in RuleBits(rule) <=> rule.scope["agencyId"] # Unset
           /\ 2 \in RuleBits(rule) <=> rule.scope["channel"] # Unset
           /\ 4 \in RuleBits(rule) <=> rule.scope["vertical"] # Unset
           /\ 8 \in RuleBits(rule) <=> rule.scope["supplierCode"] # Unset
           /\ 16 \in RuleBits(rule) <=> rule.scope["destination"] # Unset
           /\ 32 \in RuleBits(rule) <=> Banded(rule)
<1> DEFINE set(i) == rule.scope[Scopes[i]] # Unset
<1>1. DOMAIN Scopes = 1..5
  BY DEF Scopes
<1>2. /\ Scopes[1] = "agencyId" /\ Scopes[2] = "channel" /\ Scopes[3] = "vertical"
      /\ Scopes[4] = "supplierCode" /\ Scopes[5] = "destination"
  BY DEF Scopes
<1>3. 2 ^ (1 - 1) = 1 /\ 2 ^ (2 - 1) = 2 /\ 2 ^ (3 - 1) = 4 /\ 2 ^ (4 - 1) = 8 /\ 2 ^ (5 - 1) = 16
  OBVIOUS
<1>4. \A i \in 1..5 : i = 1 \/ i = 2 \/ i = 3 \/ i = 4 \/ i = 5
  OBVIOUS
<1>5. ASSUME NEW bit \in ScopeBits
      PROVE  bit \in RuleBits(rule) <=>
                \/ bit = 32 /\ Banded(rule)
                \/ (bit = 1 /\ set(1)) \/ (bit = 2 /\ set(2)) \/ (bit = 4 /\ set(3))
                \/ (bit = 8 /\ set(4)) \/ (bit = 16 /\ set(5))
  <2>1. bit \in RuleBits(rule) <=>
           \/ bit = 32 /\ Banded(rule)
           \/ \E i \in 1..5 : bit = 2 ^ (i - 1) /\ set(i)
    BY <1>1 DEF RuleBits
  <2> HIDE DEF set
  <2>2. (\E i \in 1..5 : bit = 2 ^ (i - 1) /\ set(i)) <=>
           \/ (bit = 1 /\ set(1)) \/ (bit = 2 /\ set(2)) \/ (bit = 4 /\ set(3))
           \/ (bit = 8 /\ set(4)) \/ (bit = 16 /\ set(5))
    <3>1. 1 \in 1..5 /\ 2 \in 1..5 /\ 3 \in 1..5 /\ 4 \in 1..5 /\ 5 \in 1..5
      OBVIOUS
    <3>2. ASSUME NEW i \in 1..5, bit = 2 ^ (i - 1), set(i)
          PROVE  \/ (bit = 1 /\ set(1)) \/ (bit = 2 /\ set(2)) \/ (bit = 4 /\ set(3))
                 \/ (bit = 8 /\ set(4)) \/ (bit = 16 /\ set(5))
      <4>1. CASE i = 1
        BY <1>3, <3>2, <4>1
      <4>2. CASE i = 2
        BY <1>3, <3>2, <4>2
      <4>3. CASE i = 3
        BY <1>3, <3>2, <4>3
      <4>4. CASE i = 4
        BY <1>3, <3>2, <4>4
      <4>5. CASE i = 5
        BY <1>3, <3>2, <4>5
      <4> QED
        BY <1>4, <4>1, <4>2, <4>3, <4>4, <4>5
    <3> QED
      BY <1>3, <3>1, <3>2
  <2> QED
    BY <2>1, <2>2
<1>6. 1 \in ScopeBits /\ 2 \in ScopeBits /\ 4 \in ScopeBits /\ 8 \in ScopeBits
      /\ 16 \in ScopeBits /\ 32 \in ScopeBits
  BY DEF ScopeBits
<1> HIDE DEF set
<1>7. /\ 1 \in RuleBits(rule) <=> set(1)
      /\ 2 \in RuleBits(rule) <=> set(2)
      /\ 4 \in RuleBits(rule) <=> set(3)
      /\ 8 \in RuleBits(rule) <=> set(4)
      /\ 16 \in RuleBits(rule) <=> set(5)
      /\ 32 \in RuleBits(rule) <=> Banded(rule)
  BY <1>5, <1>6
<1> QED
  BY <1>2, <1>7 DEF set

\* The sum of the powers of two a set of columns stands for.
Weight(on) ==
    (IF on[1] THEN 1 ELSE 0) + (IF on[2] THEN 2 ELSE 0) + (IF on[3] THEN 4 ELSE 0)
        + (IF on[4] THEN 8 ELSE 0) + (IF on[5] THEN 16 ELSE 0) + (IF on[6] THEN 32 ELSE 0)

\* The heavier of two sets of columns has the highest column that tells them
\* apart; equal weights, equal sets.
LEMMA HighestDecides ==
    ASSUME NEW a \in [1..6 -> BOOLEAN], NEW b \in [1..6 -> BOOLEAN]
    PROVE  /\ Weight(a) > Weight(b) <=>
                 \E i \in 1..6 : a[i] /\ ~b[i] /\ \A j \in 1..6 : j > i => (a[j] <=> b[j])
           /\ Weight(a) = Weight(b) <=> \A i \in 1..6 : a[i] <=> b[i]
<1>1. \A i \in 1..6 : i = 1 \/ i = 2 \/ i = 3 \/ i = 4 \/ i = 5 \/ i = 6
  OBVIOUS
<1>2. /\ 1 \in 1..6 /\ 2 \in 1..6 /\ 3 \in 1..6 /\ 4 \in 1..6 /\ 5 \in 1..6 /\ 6 \in 1..6
  OBVIOUS
<1>3. (\A i \in 1..6 : a[i] <=> b[i]) <=>
         /\ (a[1] <=> b[1]) /\ (a[2] <=> b[2]) /\ (a[3] <=> b[3])
         /\ (a[4] <=> b[4]) /\ (a[5] <=> b[5]) /\ (a[6] <=> b[6])
  BY <1>1, <1>2
<1>4. (\E i \in 1..6 : a[i] /\ ~b[i] /\ \A j \in 1..6 : j > i => (a[j] <=> b[j])) <=>
         \/ a[6] /\ ~b[6]
         \/ (a[6] <=> b[6]) /\ a[5] /\ ~b[5]
         \/ (a[6] <=> b[6]) /\ (a[5] <=> b[5]) /\ a[4] /\ ~b[4]
         \/ (a[6] <=> b[6]) /\ (a[5] <=> b[5]) /\ (a[4] <=> b[4]) /\ a[3] /\ ~b[3]
         \/ (a[6] <=> b[6]) /\ (a[5] <=> b[5]) /\ (a[4] <=> b[4]) /\ (a[3] <=> b[3]) /\ a[2] /\ ~b[2]
         \/ (a[6] <=> b[6]) /\ (a[5] <=> b[5]) /\ (a[4] <=> b[4]) /\ (a[3] <=> b[3]) /\ (a[2] <=> b[2])
               /\ a[1] /\ ~b[1]
  BY <1>1, <1>2
<1>5. Weight(a) = Weight(b) <=>
         /\ (a[1] <=> b[1]) /\ (a[2] <=> b[2]) /\ (a[3] <=> b[3])
         /\ (a[4] <=> b[4]) /\ (a[5] <=> b[5]) /\ (a[6] <=> b[6])
  BY DEF Weight
<1>6. Weight(a) > Weight(b) <=>
         \/ a[6] /\ ~b[6]
         \/ (a[6] <=> b[6]) /\ a[5] /\ ~b[5]
         \/ (a[6] <=> b[6]) /\ (a[5] <=> b[5]) /\ a[4] /\ ~b[4]
         \/ (a[6] <=> b[6]) /\ (a[5] <=> b[5]) /\ (a[4] <=> b[4]) /\ a[3] /\ ~b[3]
         \/ (a[6] <=> b[6]) /\ (a[5] <=> b[5]) /\ (a[4] <=> b[4]) /\ (a[3] <=> b[3]) /\ a[2] /\ ~b[2]
         \/ (a[6] <=> b[6]) /\ (a[5] <=> b[5]) /\ (a[4] <=> b[4]) /\ (a[3] <=> b[3]) /\ (a[2] <=> b[2])
               /\ a[1] /\ ~b[1]
  BY DEF Weight
<1> QED
  BY <1>3, <1>4, <1>5, <1>6

\* The columns a rule constrains, narrowest last.
Constrains(rule) ==
    [i \in 1..6 |-> \/ i = 6 /\ Banded(rule)
                    \/ i # 6 /\ rule.scope[Scopes[i]] # Unset]

\* ruleSpecificity is the weight of the columns the rule constrains.
LEMMA SpecificityWeighs ==
    ASSUME NEW rule
    PROVE  /\ Constrains(rule) \in [1..6 -> BOOLEAN]
           /\ RuleSpecificity(rule) = Weight(Constrains(rule))
           /\ RuleSpecificity(rule) \in Int
<1> DEFINE on == Constrains(rule)
           bit(b) == IF b \in RuleBits(rule) THEN b ELSE 0
<1>1. /\ on[1] <=> rule.scope["agencyId"] # Unset
      /\ on[2] <=> rule.scope["channel"] # Unset
      /\ on[3] <=> rule.scope["vertical"] # Unset
      /\ on[4] <=> rule.scope["supplierCode"] # Unset
      /\ on[5] <=> rule.scope["destination"] # Unset
      /\ on[6] <=> Banded(rule)
  BY DEF Constrains, Scopes
<1>2. on \in [1..6 -> BOOLEAN]
  BY DEF Constrains
<1>3. RuleSpecificity(rule) = bit(1) + bit(2) + bit(4) + bit(8) + bit(16) + bit(32)
  BY SpecificityAdds
<1> HIDE DEF on
<1>4. /\ on[1] <=> 1 \in RuleBits(rule)
      /\ on[2] <=> 2 \in RuleBits(rule)
      /\ on[3] <=> 4 \in RuleBits(rule)
      /\ on[4] <=> 8 \in RuleBits(rule)
      /\ on[5] <=> 16 \in RuleBits(rule)
      /\ on[6] <=> 32 \in RuleBits(rule)
  BY <1>1, BitsOfRule
<1>5. RuleSpecificity(rule) = Weight(on) /\ Weight(on) \in Int
  BY <1>3, <1>4 DEF Weight
<1> QED
  BY <1>2, <1>5 DEF on

\* The documented ordering is the comparison of the loop.
LEMMA OutranksIsTakesOver ==
    ASSUME NEW a, NEW b
    PROVE  TakesOver(a, b) <=> Outranks(a, b)
<1> DEFINE travel == Len(Scopes) + 1
           On(rule, i) == IF i = travel THEN Banded(rule) ELSE rule.scope[Scopes[i]] # Unset
           differ == {i \in 1..travel : On(a, i) # On(b, i)}
           onA == Constrains(a)
           onB == Constrains(b)
<1>1. /\ travel = 6
      /\ Scopes[1] = "agencyId" /\ Scopes[2] = "channel" /\ Scopes[3] = "vertical"
      /\ Scopes[4] = "supplierCode" /\ Scopes[5] = "destination"
  BY DEF Scopes
<1> HIDE DEF travel
<1>3. ASSUME NEW rule, NEW i \in 1..6 PROVE On(rule, i) <=> Constrains(rule)[i]
  BY <1>1 DEF Constrains
<1>4. onA \in [1..6 -> BOOLEAN] /\ onB \in [1..6 -> BOOLEAN]
  BY SpecificityWeighs
<1> HIDE DEF On, onA, onB
<1>5. \A i \in 1..6 : (On(a, i) <=> onA[i]) /\ (On(b, i) <=> onB[i])
  BY <1>3 DEF onA, onB
<1>12. \A i \in 1..6 : (On(a, i) # On(b, i)) <=> ~(On(a, i) <=> On(b, i))
  BY DEF On, Banded
<1>6. differ = {i \in 1..6 : ~(onA[i] <=> onB[i])}
  BY <1>1, <1>5, <1>12
<1>7. Outranks(a, b) <=>
         \/ \E i \in differ : On(a, i) /\ \A j \in differ : j <= i
         \/ /\ differ = {}
            /\ a.priority < b.priority \/ (a.priority = b.priority /\ a.id < b.id)
  BY DEF Outranks, differ, On, travel
<1> HIDE DEF differ
<1>8. (\E i \in differ : On(a, i) /\ \A j \in differ : j <= i) <=>
         \E i \in 1..6 : onA[i] /\ ~onB[i] /\ \A j \in 1..6 : j > i => (onA[j] <=> onB[j])
  BY <1>4, <1>5, <1>6
<1>9. differ = {} <=> \A i \in 1..6 : onA[i] <=> onB[i]
  BY <1>6
<1>10. /\ Weight(onA) > Weight(onB) <=>
             \E i \in 1..6 : onA[i] /\ ~onB[i] /\ \A j \in 1..6 : j > i => (onA[j] <=> onB[j])
       /\ Weight(onA) = Weight(onB) <=> \A i \in 1..6 : onA[i] <=> onB[i]
  BY <1>4, HighestDecides
<1>11. RuleSpecificity(a) = Weight(onA) /\ RuleSpecificity(b) = Weight(onB)
  BY SpecificityWeighs DEF onA, onB
<1> QED
  BY <1>7, <1>8, <1>9, <1>10, <1>11 DEF TakesOver

\* Of two rules of one specificity and priority the smaller id takes over.
LEMMA TakesOverOrders ==
    ASSUME NEW a, Ranked(a), NEW b, Ranked(b), NEW c, Ranked(c)
    PROVE  /\ ~TakesOver(a, a)
           /\ ~(TakesOver(a, b) /\ TakesOver(b, a))
           /\ TakesOver(a, b) /\ TakesOver(b, c) => TakesOver(a, c)
           /\ a.id # b.id => TakesOver(a, b) \/ TakesOver(b, a)
<1>1. RuleSpecificity(a) \in Int /\ RuleSpecificity(b) \in Int /\ RuleSpecificity(c) \in Int
  BY SpecificityWeighs
<1> QED
  BY <1>1 DEF TakesOver, Ranked

\* A list of rules as a tenant may keep it: the id is the key.
Listed(rules, n) ==
    /\ n \in Nat /\ DOMAIN rules = 1..n
    /\ \A i \in 1..n : Ranked(rules[i])
    /\ \A i, j \in 1..n : rules[i].id = rules[j].id => rules[i] = rules[j]

\* The rules among the first k that match.
Matching(rules, context, k) ==
    {rules[i] : i \in {j \in 1..k : RuleMatchesContext(rules[j], context)}}

\* The best of them, and no other.
Best(rules, context, winner, k) ==
    \/ Matching(rules, context, k) = {} /\ winner = {}
    \/ \E b \in Matching(rules, context, k) :
          /\ winner = {b}
          /\ \A o \in Matching(rules, context, k) : o = b \/ TakesOver(b, o)

\* The invariant of the loop: after k rules the winner is the best of the first k.
LEMMA LoopHoldsTheBest ==
    ASSUME NEW n, NEW rules, Listed(rules, n), NEW context, NEW w, Winner(rules, context, w, n)
    PROVE  Best(rules, context, w[n], n)
<1> DEFINE Good == {k \in Nat : k <= n => Best(rules, context, w[k], k)}
<1>1. 0 \in Good
  BY DEF Best, Matching, Winner
<1>2. ASSUME NEW m \in Nat, m \in Good PROVE m + 1 \in Good
  <2> SUFFICES ASSUME m + 1 <= n PROVE Best(rules, context, w[m + 1], m + 1)
    OBVIOUS
  <2> DEFINE rule == rules[m + 1]
             before == Matching(rules, context, m)
             found == Matching(rules, context, m + 1)
  <2>1. n \in Nat /\ m + 1 \in 1..n /\ m \in 0..n /\ (m + 1) - 1 = m
    BY DEF Listed
  <2>2. Best(rules, context, w[m], m)
    BY <1>2, <2>1
  <2>3. w[m + 1] = IF /\ RuleMatchesContext(rule, context)
                      /\ \A x \in w[m] : TakesOver(rule, x)
                   THEN {rule} ELSE w[m]
    BY <2>1 DEF Winner
  <2>4. found = IF RuleMatchesContext(rule, context) THEN before \cup {rule} ELSE before
    <3>1. 1..(m + 1) = (1..m) \cup {m + 1}
      OBVIOUS
    <3> QED
      BY <3>1 DEF Matching
  <2>5. Ranked(rule) /\ \A o \in before : Ranked(o) /\ (o.id = rule.id => o = rule)
    BY <2>1 DEF Listed, Matching
  <2> HIDE DEF rule, before, found
  <2>6. CASE ~RuleMatchesContext(rule, context)
    BY <2>2, <2>3, <2>4, <2>6 DEF Best, before, found
  <2>7. CASE RuleMatchesContext(rule, context) /\ before = {}
    <3>1. w[m] = {}
      BY <2>2, <2>7 DEF Best, before
    <3>2. w[m + 1] = {rule} /\ found = {rule}
      BY <2>3, <2>4, <2>7, <3>1
    <3> QED
      BY <3>2 DEF Best, found
  <2>8. CASE RuleMatchesContext(rule, context) /\ before # {}
    <3>1. PICK b \in before : w[m] = {b} /\ \A o \in before : o = b \/ TakesOver(b, o)
      BY <2>2, <2>8 DEF Best, before
    <3>2. found = before \cup {rule}
      BY <2>4, <2>8
    <3>3. CASE TakesOver(rule, b)
      <4>1. w[m + 1] = {rule}
        BY <2>3, <2>8, <3>1, <3>3
      <4>2. \A o \in found : o = rule \/ TakesOver(rule, o)
        BY <2>5, <3>1, <3>2, <3>3, TakesOverOrders
      <4> QED
        BY <3>2, <4>1, <4>2 DEF Best, found
    <3>4. CASE ~TakesOver(rule, b)
      <4>1. w[m + 1] = {b}
        BY <2>3, <3>1, <3>4
      <4>2. \A o \in found : o = b \/ TakesOver(b, o)
        BY <2>5, <3>1, <3>2, <3>4, TakesOverOrders
      <4> QED
        BY <3>2, <4>1, <4>2 DEF Best, found
    <3> QED
      BY <3>3, <3>4
  <2> QED
    BY <2>6, <2>7, <2>8
<1> HIDE DEF Good
<1>3. \A k \in Nat : k \in Good
  BY <1>1, <1>2, Induct
<1>4. n \in Nat
  BY DEF Listed
<1> QED
  BY <1>3, <1>4 DEF Good

\* selectRule fires the most specific rule that matches, of equally specific
\* ones by priority and id, wherever it stands in the list and whatever the
\* number of rules; none if none matches.
THEOREM MostSpecificWins ==
    ASSUME NEW n, asked.kind = "choice" => Listed(asked.rules, n) PROVE SelectsMostSpecific
<1> SUFFICES ASSUME asked.kind = "choice" PROVE SelectsMostSpecific
  BY DEF SelectsMostSpecific
<1> DEFINE rules == asked.rules
           context == asked.context
           matching == {rule \in Range(rules) : RuleMatchesContext(rule, context)}
<1>1. n \in Nat /\ DOMAIN rules = 1..n
  BY DEF Listed
<1>2. PICK w : Winner(rules, context, w, n) /\ SelectRule(rules, context) = w[n]
  BY <1>1, SelectRuleVisits
<1>3. Best(rules, context, SelectRule(rules, context), n)
  BY <1>2, LoopHoldsTheBest
<1>4. matching = Matching(rules, context, n)
  BY <1>1 DEF Matching, Range
<1>5. \A rule \in matching : Ranked(rule)
  BY <1>1 DEF Listed, Range
<1> HIDE DEF matching, rules, context
<1>6. SelectRule(rules, context) =
         {rule \in matching : \A other \in matching \ {rule} : TakesOver(rule, other)}
  <2>1. CASE matching = {}
    BY <1>3, <1>4, <2>1 DEF Best
  <2>2. CASE matching # {}
    <3>1. PICK b \in matching :
             SelectRule(rules, context) = {b} /\ \A o \in matching : o = b \/ TakesOver(b, o)
      BY <1>3, <1>4, <2>2 DEF Best
    <3>2. ASSUME NEW r \in matching, r # b PROVE ~(\A other \in matching \ {r} : TakesOver(r, other))
      BY <1>5, <3>1, <3>2, TakesOverOrders
    <3> QED
      BY <3>1, <3>2
  <2> QED
    BY <2>1, <2>2
<1>7. SelectRule(rules, context) =
         {rule \in matching : \A other \in matching \ {rule} : Outranks(rule, other)}
  BY <1>6, OutranksIsTakesOver
<1> QED
  BY <1>7 DEF SelectsMostSpecific, matching, rules, context
-----------------------------------------------------------------------------
(* The price: allocate, multiplyByScalar and resolvePrice.                 *)

\* The sum of a list of two.
LEMMA SumOfPair ==
    ASSUME NEW f, DOMAIN f = 1..2, f[1] \in Int, f[2] \in Int
    PROVE  SumFunction(f) = f[1] + f[2]
<1>1. 1..2 = {1, 2} /\ 1 # 2
  OBVIOUS
<1>2. SumFunction(f) = SumFunctionOnSet(f, {1, 2})
  BY <1>1 DEF SumFunction
<1>3. SumFunctionOnSet(f, {1, 2}) = f[1] + f[2]
  BY <1>1, SumOverTwo
<1> QED
  BY <1>2, <1>3

\* allocate over two weights: whole units first, the odd one to the larger
\* remainder.
LEMMA AllocatesTwo ==
    ASSUME NEW x \in Int, NEW a \in Nat, NEW b \in Nat, a + b > 0
    PROVE  LET shares == Allocate(x, <<a, b>>)
           IN  /\ shares[1] \in Int /\ shares[2] \in Int
               /\ shares[1] + shares[2] = x
               /\ Nearest(shares[1], x, a, a + b) /\ Nearest(shares[2], x, b, a + b)
<1> DEFINE weights == <<a, b>>
           shares == Allocate(x, weights)
           m == Magnitude(x)
           d == a + b
           first == FloorShare(x, weights, 1)
           second == FloorShare(x, weights, 2)
           r1 == Remainder(x, weights, 1)
           r2 == Remainder(x, weights, 2)
           left == Leftover(x, weights)
           u1 == IF Cardinality(ServedBefore(x, weights, 1)) < left THEN 1 ELSE 0
           u2 == IF Cardinality(ServedBefore(x, weights, 2)) < left THEN 1 ELSE 0
<1>1. m \in Nat /\ m = IF x < 0 THEN -x ELSE x
  BY DEF Magnitude
<1>2. /\ DOMAIN weights = 1..2 /\ weights[1] = a /\ weights[2] = b
      /\ d \in Nat \ {0}
  OBVIOUS
<1>3. SumFunction(weights) = d
  BY SumOfTwo
<1>4. shares = [i \in 1..2 |-> WithSignOf(x, FloorShare(x, weights, i)
                  + (IF Cardinality(ServedBefore(x, weights, i)) < left THEN 1 ELSE 0))]
  BY <1>2 DEF Allocate
<1>5. shares[1] = WithSignOf(x, first + u1) /\ shares[2] = WithSignOf(x, second + u2)
  BY <1>4
<1>6. /\ first = (m * a) \div d /\ r1 = (m * a) % d
      /\ second = (m * b) \div d /\ r2 = (m * b) % d
  BY <1>2, <1>3 DEF FloorShare, Remainder
<1> HIDE DEF weights
<1>7. left = m - SumFunction([i \in 1..2 |-> FloorShare(x, weights, i)])
  BY <1>2 DEF Leftover
<1>8. /\ ServedBefore(x, weights, 1) =
            {j \in 1..2 : Remainder(x, weights, j) > r1 \/ (Remainder(x, weights, j) = r1 /\ j < 1)}
      /\ ServedBefore(x, weights, 2) =
            {j \in 1..2 : Remainder(x, weights, j) > r2 \/ (Remainder(x, weights, j) = r2 /\ j < 2)}
  BY <1>2 DEF ServedBefore
<1> HIDE DEF shares, m, d
<1>9. m * a \in Nat /\ m * b \in Nat /\ m * a + m * b = m * d
  BY <1>1 DEF d
<1> DEFINE ma == m * a
           mb == m * b
<1>10. ma \in Int /\ mb \in Int /\ ma >= 0 /\ mb >= 0 /\ ma + mb = m * d
  BY <1>9
<1>11. /\ first = ma \div d /\ r1 = ma % d /\ second = mb \div d /\ r2 = mb % d
  BY <1>6
<1> HIDE DEF ma, mb, first, second, r1, r2
<1>12. /\ first \in Nat /\ r1 \in 0..(d - 1) /\ ma = d * first + r1
       /\ second \in Nat /\ r2 \in 0..(d - 1) /\ mb = d * second + r2
  <2>1. /\ ma \div d \in Int /\ ma % d \in 0..(d - 1)
        /\ ma = d * (ma \div d) + (ma % d) /\ ma \div d >= 0
    BY <1>2, <1>10
  <2>2. /\ mb \div d \in Int /\ mb % d \in 0..(d - 1)
        /\ mb = d * (mb \div d) + (mb % d) /\ mb \div d >= 0
    BY <1>2, <1>10
  <2> QED
    BY <1>11, <2>1, <2>2
<1>13. left = m - (first + second)
  <2> DEFINE f == [i \in 1..2 |-> FloorShare(x, weights, i)]
  <2>1. DOMAIN f = 1..2 /\ f[1] = first /\ f[2] = second
    BY DEF first, second
  <2> HIDE DEF f
  <2>2. SumFunction(f) = first + second
    BY <1>12, <2>1, SumOfPair
  <2> QED
    BY <1>7, <2>2 DEF f
<1> DEFINE l == m - (first + second)
<1>14. l \in Int /\ d * l = r1 + r2
  <2>1. d * l = d * m - (d * first + d * second)
    BY <1>1, <1>2, <1>12
  <2>2. d * m = m * d /\ d * first \in Int /\ d * second \in Int
    BY <1>1, <1>2, <1>12
  <2> QED
    BY <1>1, <1>10, <1>12, <2>1, <2>2
<1> HIDE DEF l
<1>15. (l = 0 /\ r1 = 0 /\ r2 = 0) \/ (l = 1 /\ r1 + r2 = d)
  <2>1. l >= 0
    <3> SUFFICES ASSUME l <= -1 PROVE FALSE
      BY <1>14
    <3>1. d * l <= -d
      BY <1>2, <1>14
    <3> QED
      BY <1>2, <1>12, <1>14, <3>1
  <2>2. l <= 1
    <3> SUFFICES ASSUME l >= 2 PROVE FALSE
      BY <1>14
    <3>1. d * l >= 2 * d
      BY <1>2, <1>14
    <3> QED
      BY <1>2, <1>12, <1>14, <3>1
  <2>3. l = 0 \/ l = 1
    BY <1>14, <2>1, <2>2
  <2> QED
    BY <1>2, <1>12, <1>14, <2>3
<1>16. left = l
  BY <1>13 DEF l
<1> HIDE DEF left
<1>17. /\ u1 = IF l = 1 /\ ~(r2 > r1) THEN 1 ELSE 0
       /\ u2 = IF l = 1 /\ r2 > r1 THEN 1 ELSE 0
  <2>1. Remainder(x, weights, 1) = r1 /\ Remainder(x, weights, 2) = r2 /\ r1 \in Int /\ r2 \in Int
    BY <1>12 DEF r1, r2
  <2>2. Cardinality({}) = 0 /\ Cardinality({1}) = 1 /\ Cardinality({2}) = 1
    BY FS_EmptySet, FS_Singleton
  <2>3. 1..2 = {1, 2}
    OBVIOUS
  <2>4. /\ ServedBefore(x, weights, 1) = IF r2 > r1 THEN {2} ELSE {}
        /\ ServedBefore(x, weights, 2) = IF r2 > r1 THEN {} ELSE {1}
    BY <1>8, <2>1, <2>3
  <2> QED
    BY <1>15, <1>16, <2>2, <2>4
<1> HIDE DEF u1, u2
<1>18. /\ u1 \in Int /\ u2 \in Int /\ u1 + u2 = l
       /\ 2 * Magnitude(d * u1 - r1) <= d /\ 2 * Magnitude(d * u2 - r2) <= d
  <2>1. CASE l = 0
    BY <1>2, <1>15, <1>17, <2>1 DEF Magnitude
  <2>2. CASE l = 1 /\ r2 > r1
    BY <1>2, <1>12, <1>15, <1>17, <2>2 DEF Magnitude
  <2>3. CASE l = 1 /\ ~(r2 > r1)
    BY <1>2, <1>12, <1>15, <1>17, <2>3 DEF Magnitude
  <2> QED
    BY <1>15, <2>1, <2>2, <2>3
<1>19. /\ shares[1] = (IF x < 0 THEN -(first + u1) ELSE first + u1)
       /\ shares[2] = (IF x < 0 THEN -(second + u2) ELSE second + u2)
  BY <1>5 DEF WithSignOf
<1>20. shares[1] \in Int /\ shares[2] \in Int /\ shares[1] + shares[2] = x
  BY <1>1, <1>12, <1>18, <1>19 DEF l
<1>21. Nearest(shares[1], x, a, d)
  <2>1. /\ (first + u1) * d = d * first + d * u1
        /\ (-(first + u1)) * d = -(d * first + d * u1)
        /\ d * first \in Int /\ d * u1 \in Int
    BY <1>2, <1>12, <1>18
  <2>2. x * a = IF x < 0 THEN -ma ELSE ma
    BY <1>1 DEF ma
  <2>3. shares[1] * d - x * a = IF x < 0 THEN -(d * u1 - r1) ELSE d * u1 - r1
    BY <1>10, <1>12, <1>19, <2>1, <2>2
  <2> HIDE DEF ma
  <2>4. d * u1 - r1 \in Int
    BY <1>12, <2>1
  <2> QED
    BY <1>18, <2>3, <2>4 DEF Nearest, Magnitude
<1>22. Nearest(shares[2], x, b, d)
  <2>1. /\ (second + u2) * d = d * second + d * u2
        /\ (-(second + u2)) * d = -(d * second + d * u2)
        /\ d * second \in Int /\ d * u2 \in Int
    BY <1>2, <1>12, <1>18
  <2>2. x * b = IF x < 0 THEN -mb ELSE mb
    BY <1>1 DEF mb
  <2>3. shares[2] * d - x * b = IF x < 0 THEN -(d * u2 - r2) ELSE d * u2 - r2
    BY <1>10, <1>12, <1>19, <2>1, <2>2
  <2> HIDE DEF mb
  <2>4. d * u2 - r2 \in Int
    BY <1>12, <2>1
  <2> QED
    BY <1>18, <2>3, <2>4 DEF Nearest, Magnitude
<1> QED
  BY <1>20, <1>21, <1>22 DEF shares, weights, d

-----------------------------------------------------------------------------
\* At most one rule fires, and it is one of the list.
LEMMA OneRuleFires ==
    ASSUME NEW n \in Nat, NEW rules, DOMAIN rules = 1..n, NEW context
    PROVE  \/ SelectRule(rules, context) = {}
           \/ \E i \in 1..n : SelectRule(rules, context) = {rules[i]}
<1>1. PICK w : Winner(rules, context, w, n) /\ SelectRule(rules, context) = w[n]
  BY SelectRuleVisits
<1> DEFINE Good == {k \in Nat : k <= n => w[k] = {} \/ \E i \in 1..n : w[k] = {rules[i]}}
<1>2. 0 \in Good
  BY <1>1 DEF Winner
<1>3. ASSUME NEW m \in Nat, m \in Good PROVE m + 1 \in Good
  <2> SUFFICES ASSUME m + 1 <= n
               PROVE  w[m + 1] = {} \/ \E i \in 1..n : w[m + 1] = {rules[i]}
    OBVIOUS
  <2>1. m + 1 \in 1..n /\ (m + 1) - 1 = m /\ m <= n
    OBVIOUS
  <2>2. w[m + 1] = {rules[m + 1]} \/ w[m + 1] = w[m]
    BY <1>1, <2>1 DEF Winner
  <2> QED
    BY <1>3, <2>1, <2>2
<1> HIDE DEF Good
<1>4. \A k \in Nat : k \in Good
  BY <1>2, <1>3, Induct
<1>5. w[n] = {} \/ \E i \in 1..n : w[n] = {rules[i]}
  BY <1>4 DEF Good
<1> QED
  BY <1>1, <1>5

\* A nonnegative amount times a nonnegative scalar is none below zero.
LEMMA ScalesUp ==
    ASSUME NEW x \in Int, NEW num \in Int, NEW d \in Nat \ {0}
    PROVE  /\ MultiplyByScalar(x, num, d) \in Int
           /\ x >= 0 /\ num >= 0 => MultiplyByScalar(x, num, d) >= 0
           /\ Nearest(MultiplyByScalar(x, num, d), x, num, d)
<1> DEFINE y == x * num
<1>1. y \in Int /\ (x >= 0 /\ num >= 0 => y >= 0)
  OBVIOUS
<1>2. MultiplyByScalar(x, num, d) = DivideRoundHalfAwayFromZero(y, d)
  BY DEF MultiplyByScalar
<1>3. y = x * num
  OBVIOUS
<1> HIDE DEF y
<1>4. /\ DivideRoundHalfAwayFromZero(y, d) \in Int
      /\ y >= 0 => DivideRoundHalfAwayFromZero(y, d) >= 0
      /\ 2 * Magnitude(DivideRoundHalfAwayFromZero(y, d) * d - y) <= d
  BY <1>1, RoundsToNearest
<1> QED
  BY <1>1, <1>2, <1>3, <1>4 DEF Nearest

\* A price that may be asked: an amount in whole units, a rate that is a ratio,
\* rules and a tax in whole basis points, quantities that are counts if known.
Askable(question, n) ==
    /\ question.net.amount \in Int
    /\ \/ question.options.settlement = Unset
       \/ /\ question.options.settlement.bufferBps \in Int
          /\ question.options.settlement.rate.numerator \in Int
          /\ question.options.settlement.rate.denominator \in Nat \ {0}
    /\ question.options.vat.mode \in {"inclusive", "exclusive", "exempt"}
    /\ n \in Nat /\ DOMAIN question.rules = 1..n
    /\ \A i \in 1..n : question.rules[i].value \in Int
    /\ question.context.nights \in Nat \cup {Unset}
    /\ question.context.paxCount \in Nat \cup {Unset}

\* Basis points.
LEMMA BasisPoints ==
    ASSUME NEW bps, bps \in 0..Whole
    PROVE  /\ Whole \in Nat \ {0} /\ Whole \in Nat /\ bps \in Nat /\ bps \in Int /\ bps >= 0
           /\ Whole + bps \in Int /\ Whole + bps >= 0 /\ Whole + bps > 0 /\ bps <= Whole
<1>1. Whole = 10000
  BY DEF Whole
<1>2. bps \in 0..10000
  BY <1>1
<1> HIDE DEF Whole
<1> QED
  BY <1>1, <1>2

\* The net in the sell currency.
LEMMA BasisIsAnAmount ==
    ASSUME NEW net, NEW settlement, net.amount \in Int, net.amount >= 0,
           \/ settlement = Unset
           \/ /\ settlement.bufferBps \in 0..Whole
              /\ settlement.rate.numerator \in Int /\ settlement.rate.numerator > 0
              /\ settlement.rate.denominator \in Nat \ {0}
    PROVE  NetBasis(net, settlement) \in Int /\ NetBasis(net, settlement) >= 0
<1>1. CASE settlement = Unset
  BY <1>1 DEF NetBasis
<1>2. CASE settlement # Unset
  <2> DEFINE num == settlement.rate.numerator
             den == settlement.rate.denominator
             points == settlement.bufferBps
             amount == net.amount
  <2>0. /\ num \in Int /\ num >= 0 /\ den \in Nat \ {0} /\ points \in 0..Whole
        /\ amount \in Int /\ amount >= 0
    BY <1>2
  <2>3. Converted(net, settlement) = MultiplyByScalar(amount, num, den)
    BY DEF Converted
  <2> HIDE DEF num, den, points, amount
  <2>1. Converted(net, settlement) \in Int /\ Converted(net, settlement) >= 0
    BY <2>0, <2>3, ScalesUp
  <2>4. Whole + points \in Int /\ Whole + points >= 0 /\ Whole \in Nat \ {0}
    BY <2>0, BasisPoints
  <2>2. /\ Whole + settlement.bufferBps \in Int /\ Whole + settlement.bufferBps >= 0
        /\ Whole \in Nat \ {0}
    BY <2>4 DEF points
  <2> QED
    BY <1>2, <2>1, <2>2, ScalesUp DEF NetBasis
<1> QED
  BY <1>1, <1>2

\* The markup of a rule that is defined.
LEMMA MarkupIsAnAmount ==
    ASSUME NEW rule, rule.value \in Int, NEW basis \in Int, NEW context, NEW currency,
           context.nights \in Nat \cup {Unset}, context.paxCount \in Nat \cup {Unset},
           MarkupDefined(rule, currency, context)
    PROVE  /\ RuleMarkup(rule, basis, context) \in Int
           /\ basis >= 0 /\ rule.value >= 0 => RuleMarkup(rule, basis, context) >= 0
<1>1. CASE rule.valueType = "percent"
  <2>1. Whole \in Nat \ {0}
    BY DEF Whole
  <2> QED
    BY <1>1, <2>1, ScalesUp DEF RuleMarkup
<1>2. CASE rule.valueType # "percent"
  <2>1. Quantity(rule, context) \in Nat
    BY <1>2 DEF MarkupDefined, Quantity
  <2> QED
    BY <1>2, <2>1 DEF RuleMarkup
<1> QED
  BY <1>1, <1>2

\* The two parts of a pre-tax price.
LEMMA TaxIsAShare ==
    ASSUME NEW preTax \in Int, preTax >= 0, NEW vat, vat.rateBps \in 0..Whole,
           vat.mode \in {"inclusive", "exclusive", "exempt"}
    PROVE  LET parts == VatParts(preTax, vat)
           IN  /\ parts[1] \in Int /\ parts[2] \in Int
               /\ vat.mode = "inclusive" =>
                     /\ parts[1] + parts[2] = preTax
                     /\ Nearest(parts[2], preTax, vat.rateBps, Whole + vat.rateBps)
               /\ vat.mode = "exclusive" =>
                     /\ parts[1] = preTax /\ parts[2] >= 0
                     /\ Nearest(parts[2], preTax, vat.rateBps, Whole)
               /\ vat.mode = "exempt" => parts[1] = preTax /\ parts[2] = 0
<1> DEFINE bps == vat.rateBps
<1>1. /\ Whole \in Nat \ {0} /\ Whole \in Nat /\ bps \in Nat /\ bps \in Int /\ bps >= 0
      /\ Whole + bps > 0
  BY BasisPoints
<1>2. CASE vat.mode = "inclusive"
  <2>1. VatParts(preTax, vat) = Allocate(preTax, <<Whole, vat.rateBps>>)
    BY <1>2 DEF VatParts
  <2> QED
    BY <1>1, <1>2, <2>1, AllocatesTwo
<1>3. CASE vat.mode = "exclusive"
  <2>1. VatParts(preTax, vat) = <<preTax, MultiplyByScalar(preTax, vat.rateBps, Whole)>>
    BY <1>3 DEF VatParts
  <2> DEFINE tax == MultiplyByScalar(preTax, bps, Whole)
  <2>2. tax \in Int /\ tax >= 0 /\ Nearest(tax, preTax, bps, Whole)
    BY <1>1, ScalesUp
  <2>3. VatParts(preTax, vat)[1] = preTax /\ VatParts(preTax, vat)[2] = tax
    BY <2>1
  <2> HIDE DEF tax
  <2> QED
    BY <1>3, <2>2, <2>3
<1>4. CASE vat.mode = "exempt"
  BY <1>4 DEF VatParts
<1> QED
  BY <1>2, <1>3, <1>4

\* Components: the base, the markup, and a tax added on top.
LEMMA ComponentsAddUp ==
    ASSUME NEW a \in Int, NEW b \in Int, NEW c \in Int
    PROVE  /\ SumFunction(<<>>) = 0 /\ SumFunction(<<c>>) = c
           /\ SumFunction(<<a, b>> \o <<>>) = a + b
           /\ SumFunction(<<a, b>> \o <<c>>) = a + b + c
<1>1. SumFunction(<<>>) = 0
  <2>1. DOMAIN <<>> = {}
    OBVIOUS
  <2> QED
    BY <2>1, SumOfNone DEF SumFunction
<1>2. SumFunction(<<c>>) = c
  <2> DEFINE f == <<c>>
  <2>1. DOMAIN f = {1} /\ f[1] = c
    OBVIOUS
  <2> HIDE DEF f
  <2>2. SumFunction(f) = c
    BY <2>1, SumOfOne DEF SumFunction
  <2> QED
    BY <2>2 DEF f
<1>3. <<a, b>> \o <<>> = <<a, b>>
  OBVIOUS
<1>4. SumFunction(<<a, b>> \o <<c>>) = a + b + c
  <2> DEFINE s == <<a, b>>
             u == <<c>>
             f == s \o u
  <2>1. s \in Seq(Int) /\ u \in Seq(Int) /\ Len(s) = 2 /\ Len(u) = 1
        /\ s[1] = a /\ s[2] = b /\ u[1] = c
    OBVIOUS
  <2> HIDE DEF s, u
  <2>2. /\ Len(f) = Len(s) + Len(u) /\ f \in Seq(Int)
        /\ \A i \in 1..(Len(s) + Len(u)) : f[i] = IF i <= Len(s) THEN s[i] ELSE u[i - Len(s)]
    BY <2>1, ConcatProperties
  <2>3. DOMAIN f = 1..3
    BY <2>1, <2>2
  <2>4. f[1] = a /\ f[2] = b /\ f[3] = c
    <3>1. 1 \in 1..(2 + 1) /\ 2 \in 1..(2 + 1) /\ 3 \in 1..(2 + 1) /\ 1 <= 2 /\ ~(3 <= 2) /\ 3 - 2 = 1
      OBVIOUS
    <3> QED
      BY <2>1, <2>2, <3>1
  <2> HIDE DEF f
  <2>5. SumFunction(f) = a + b + c
    BY <2>3, <2>4, SumOfThree
  <2> QED
    BY <2>5 DEF f, s, u
<1>5. SumFunction(<<a, b>>) = a + b
  BY SumOfTwo
<1> QED
  BY <1>1, <1>2, <1>3, <1>4, <1>5

\* resolvePrice, for every amount, rate, rule list and tax: the components add
\* up to the sell price, base and tax too, the tax and the commission are the
\* nearest minor unit to the exact share, and only a rule of a negative value
\* sells below the net.
THEOREM EveryPriceAddsUp ==
    ASSUME NEW n, asked.kind = "price" => Askable(asked, n) PROVE PriceAddsUp
<1> SUFFICES ASSUME asked.kind = "price",
                    NEW p \in ResolvePrice(asked.net, asked.context, asked.rules, asked.options)
             PROVE  LET vat == asked.options.vat
                    IN  /\ SumFunction(p.components) = p.sell
                        /\ p.taxableBase + p.vat = p.sell
                        /\ p.sell >= 0
                        /\ p.sell >= p.net \/ \E rule \in p.firedRule : rule.value < 0
                        /\ vat.mode = "inclusive" =>
                              Nearest(p.vat, p.sell, vat.rateBps, Whole + vat.rateBps)
                        /\ vat.mode = "exclusive" => Nearest(p.vat, p.taxableBase, vat.rateBps, Whole)
                        /\ vat.mode = "exempt" => p.vat = 0
                        /\ \A split \in p.commissionSplit :
                              /\ split[1] + split[2] = p.markup
                              /\ \A rule \in p.firedRule :
                                    Nearest(split[1], p.markup, rule.commissionSplitBps, Whole)
  BY DEF PriceAddsUp
<1> DEFINE net == asked.net
           context == asked.context
           rules == asked.rules
           options == asked.options
           settlement == options.settlement
           vat == options.vat
           fired == SelectRule(rules, context)
           basis == NetBasis(net, settlement)
           raw == RawMarkup(fired, basis, context)
           markup == ClampedMarkup(basis, raw)
           parts == VatParts(basis + markup, vat)
           onTop == IF vat.mode = "exclusive" THEN <<parts[2]>> ELSE <<>>
<1>1. Askable(asked, n) /\ Resolves(net, context, rules, options)
  BY DEF ResolvePrice
<1>2. p = Resolution(net, context, fired, options)
  BY DEF ResolvePrice
<1>3. /\ p.sell = basis + markup + SumFunction(onTop)
      /\ p.net = basis /\ p.markup = markup
      /\ p.taxableBase = parts[1] /\ p.vat = parts[2]
      /\ p.components = <<basis, markup>> \o onTop
      /\ p.commissionSplit = {CommissionSplit(rule, markup) :
                                 rule \in {r \in fired : r.commissionSplitBps # Unset}}
      /\ p.firedRule = fired
  BY <1>2 DEF Resolution
<1>4. basis \in Int /\ basis >= 0
  <2>1. /\ net.amount \in Int /\ net.amount >= 0
        /\ \/ settlement = Unset
           \/ /\ settlement.bufferBps \in 0..Whole
              /\ settlement.rate.numerator \in Int /\ settlement.rate.numerator > 0
              /\ settlement.rate.denominator \in Nat \ {0}
    BY <1>1 DEF Askable, Resolves, SettlementAccepted
  <2> HIDE DEF net, settlement
  <2> QED
    BY <2>1, BasisIsAnAmount
<1>5. /\ n \in Nat /\ DOMAIN rules = 1..n
      /\ \A i \in 1..n : rules[i].value \in Int /\ ValidPricingRule(rules[i])
      /\ \A rule \in fired : MarkupDefined(rule, SellCurrency(net, settlement), context)
      /\ context.nights \in Nat \cup {Unset} /\ context.paxCount \in Nat \cup {Unset}
      /\ vat.mode \in {"inclusive", "exclusive", "exempt"} /\ vat.rateBps \in 0..Whole
  BY <1>1 DEF Askable, Resolves
<1>6. fired = {} \/ \E i \in 1..n : fired = {rules[i]}
  <2> HIDE DEF rules, context
  <2> QED
    BY <1>5, OneRuleFires
<1> HIDE DEF net, context, rules, options, settlement, vat, fired, basis
<1>7. /\ raw \in Int
      /\ raw >= 0 \/ \E rule \in fired : rule.value < 0
  <2>1. CASE fired = {}
    BY <2>1 DEF RawMarkup
  <2>2. CASE fired # {}
    <3>1. PICK i \in 1..n : fired = {rules[i]}
      BY <1>6, <2>2
    <3>2. raw = RuleMarkup(rules[i], basis, context)
      BY <3>1 DEF RawMarkup
    <3>3. /\ rules[i].value \in Int /\ rules[i] \in fired
          /\ MarkupDefined(rules[i], SellCurrency(net, settlement), context)
      BY <1>5, <3>1
    <3>4. /\ RuleMarkup(rules[i], basis, context) \in Int
          /\ basis >= 0 /\ rules[i].value >= 0 => RuleMarkup(rules[i], basis, context) >= 0
      BY <1>4, <1>5, <3>3, MarkupIsAnAmount
    <3> QED
      BY <1>4, <3>2, <3>3, <3>4
  <2> QED
    BY <2>1, <2>2
<1> HIDE DEF raw
<1>8. /\ markup \in Int /\ basis + markup >= 0
      /\ markup >= 0 \/ \E rule \in fired : rule.value < 0
  BY <1>4, <1>7 DEF ClampedMarkup
<1> HIDE DEF markup
<1> DEFINE preTax == basis + markup
<1>9. preTax \in Int /\ preTax >= 0
  BY <1>4, <1>8
<1>10. parts = VatParts(preTax, vat)
  OBVIOUS
<1> HIDE DEF preTax, parts
<1>11. /\ parts[1] \in Int /\ parts[2] \in Int
       /\ vat.mode = "inclusive" =>
             /\ parts[1] + parts[2] = preTax
             /\ Nearest(parts[2], preTax, vat.rateBps, Whole + vat.rateBps)
       /\ vat.mode = "exclusive" =>
             /\ parts[1] = preTax /\ parts[2] >= 0
             /\ Nearest(parts[2], preTax, vat.rateBps, Whole)
       /\ vat.mode = "exempt" => parts[1] = preTax /\ parts[2] = 0
  BY <1>5, <1>9, <1>10, TaxIsAShare
<1>12. preTax = basis + markup
  BY DEF preTax
<1>13. /\ SumFunction(p.components) = p.sell
       /\ p.sell = IF vat.mode = "exclusive" THEN preTax + parts[2] ELSE preTax
  <2>1. CASE vat.mode = "exclusive"
    <3>4. parts[2] \in Int /\ basis \in Int /\ markup \in Int /\ onTop = <<parts[2]>>
      BY <1>4, <1>8, <1>11, <2>1
    <3>1. SumFunction(onTop) = parts[2]
      BY <3>4, ComponentsAddUp
    <3>2. SumFunction(<<basis, markup>> \o onTop) = basis + markup + parts[2]
      BY <3>4, ComponentsAddUp
    <3> QED
      BY <1>3, <1>12, <2>1, <3>1, <3>2
  <2>2. CASE vat.mode # "exclusive"
    <3>1. SumFunction(onTop) = 0
      BY <1>11, <2>2, ComponentsAddUp
    <3>2. SumFunction(<<basis, markup>> \o onTop) = basis + markup
      BY <1>4, <1>8, <1>11, <2>2, ComponentsAddUp
    <3> QED
      BY <1>3, <1>4, <1>8, <1>12, <2>2, <3>1, <3>2
  <2> QED
    BY <2>1, <2>2
<1>14. ASSUME NEW split \in p.commissionSplit
       PROVE  /\ split[1] + split[2] = p.markup
              /\ \A rule \in p.firedRule :
                    Nearest(split[1], p.markup, rule.commissionSplitBps, Whole)
  <2>1. PICK r \in fired : r.commissionSplitBps # Unset /\ split = CommissionSplit(r, markup)
    BY <1>3
  <2>2. fired = {r} /\ r.commissionSplitBps \in 0..Whole
    BY <1>5, <1>6, <2>1 DEF ValidPricingRule
  <2> DEFINE bps == r.commissionSplitBps
             rest == Whole - bps
  <2>3. /\ bps \in Nat /\ rest \in Nat /\ bps + rest > 0 /\ bps + rest = Whole
    BY <2>2, BasisPoints
  <2>4. split = Allocate(markup, <<bps, rest>>)
    BY <2>1 DEF CommissionSplit
  <2> HIDE DEF bps, rest
  <2>5. /\ split[1] + split[2] = markup
        /\ Nearest(split[1], markup, bps, bps + rest)
    BY <1>8, <2>3, <2>4, AllocatesTwo
  <2> QED
    BY <1>3, <2>2, <2>3, <2>5 DEF bps
<1> HIDE DEF onTop
<1>15. p.taxableBase + p.vat = p.sell /\ p.sell >= 0
  BY <1>3, <1>5, <1>9, <1>11, <1>13
<1>16. p.sell >= p.net \/ \E rule \in p.firedRule : rule.value < 0
  BY <1>3, <1>4, <1>8, <1>9, <1>11, <1>12, <1>13
<1>17. /\ vat.mode = "inclusive" => Nearest(p.vat, p.sell, vat.rateBps, Whole + vat.rateBps)
       /\ vat.mode = "exclusive" => Nearest(p.vat, p.taxableBase, vat.rateBps, Whole)
       /\ vat.mode = "exempt" => p.vat = 0
  BY <1>3, <1>11, <1>13
<1> QED
  BY <1>13, <1>14, <1>15, <1>16, <1>17 DEF vat, options
-----------------------------------------------------------------------------
(* The cancellation fee: mapCancellationPolicy and resolvePenaltyAt.       *)

Precedes(rows, i, j) ==
    \/ rows[i].fromDate < rows[j].fromDate
    \/ rows[i].fromDate = rows[j].fromDate /\ i < j

\* A row stands in the order after as many rows as precede it.
LEMMA RowsCanBeOrdered ==
    ASSUME NEW n \in Nat, NEW rows, \A i \in 1..n : rows[i].fromDate \in Int
    PROVE  \E order \in [1..n -> 1..n] :
              \A i, j \in 1..n : i < j => Precedes(rows, order[i], order[j])
<1>1. IsFiniteSet(1..n) /\ Cardinality(1..n) = n
  BY IntervalSize
<1> DEFINE Before(i) == {j \in 1..n : Precedes(rows, j, i)}
           rank == [i \in 1..n |-> Cardinality(Before(i)) + 1]
<1>2. ASSUME NEW i \in 1..n
      PROVE  IsFiniteSet(Before(i)) /\ Cardinality(Before(i)) \in Nat /\ rank[i] \in 1..n
  <2>1. IsFiniteSet((1..n) \ {i}) /\ Cardinality((1..n) \ {i}) = n - 1
    BY <1>1, FS_RemoveElement
  <2>2. Before(i) \in SUBSET ((1..n) \ {i})
    BY DEF Precedes
  <2> HIDE DEF Before
  <2>3. IsFiniteSet(Before(i)) /\ Cardinality(Before(i)) <= n - 1
    BY <2>1, <2>2, FS_Subset
  <2>4. Cardinality(Before(i)) \in Nat
    BY <2>3, FS_CardinalityType
  <2> QED
    BY <2>3, <2>4
<1>3. ASSUME NEW i \in 1..n, NEW j \in 1..n, Precedes(rows, i, j)
      PROVE  rank[i] < rank[j]
  <2>1. Before(i) \in SUBSET Before(j)
    BY <1>3 DEF Precedes
  <2>2. i \in Before(j) /\ i \notin Before(i)
    BY <1>3 DEF Precedes
  <2> HIDE DEF Before
  <2>3. Cardinality(Before(i)) <= Cardinality(Before(j)) /\ Cardinality(Before(i)) # Cardinality(Before(j))
    BY <1>2, <2>1, <2>2, FS_Subset
  <2> QED
    BY <1>2, <2>3
<1>4. \A i, j \in 1..n : i = j \/ Precedes(rows, i, j) \/ Precedes(rows, j, i)
  BY DEF Precedes
<1>5. rank \in [1..n -> 1..n]
  BY <1>2
<1> HIDE DEF rank
<1>6. rank \in Injection(1..n, 1..n)
  <2>1. ASSUME NEW i \in 1..n, NEW j \in 1..n, rank[i] = rank[j] PROVE i = j
    BY <1>3, <1>4, <1>5, <2>1
  <2> QED
    BY <1>5, <2>1 DEF Injection, IsInjective
<1>7. rank \in Surjection(1..n, 1..n)
  BY <1>1, <1>6, FS_Injection
<1>8. \A k \in 1..n : \E i \in 1..n : rank[i] = k
  BY <1>7 DEF Surjection
<1> DEFINE order == [k \in 1..n |-> CHOOSE i \in 1..n : rank[i] = k]
<1>9. order \in [1..n -> 1..n] /\ \A k \in 1..n : rank[order[k]] = k
  BY <1>8
<1> HIDE DEF order
<1>10. ASSUME NEW i \in 1..n, NEW j \in 1..n, i < j PROVE Precedes(rows, order[i], order[j])
  <2>1. order[i] \in 1..n /\ order[j] \in 1..n /\ rank[order[i]] = i /\ rank[order[j]] = j
    BY <1>9
  <2>2. order[i] # order[j] /\ ~Precedes(rows, order[j], order[i])
    BY <1>3, <1>10, <2>1
  <2> QED
    BY <1>4, <2>1, <2>2
<1> QED
  BY <1>9, <1>10

\* mapCancellationPolicy: the rows of a rate, each once, by instant.
LEMMA RowOrderSorts ==
    ASSUME NEW n \in Nat, NEW rows, DOMAIN rows = 1..n, \A i \in 1..n : rows[i].fromDate \in Int
    PROVE  /\ RowOrder(rows) \in [1..n -> 1..n]
           /\ \A i, j \in 1..n : i < j => Precedes(rows, RowOrder(rows)[i], RowOrder(rows)[j])
<1>1. \E order \in [1..n -> 1..n] :
         \A i, j \in 1..n : i < j => Precedes(rows, order[i], order[j])
  BY RowsCanBeOrdered
<1>2. \E order \in [DOMAIN rows -> DOMAIN rows] :
         \A i, j \in DOMAIN rows : i < j => Precedes(rows, order[i], order[j])
  BY <1>1
<1>3. /\ RowOrder(rows) \in [DOMAIN rows -> DOMAIN rows]
      /\ \A i, j \in DOMAIN rows : i < j => Precedes(rows, RowOrder(rows)[i], RowOrder(rows)[j])
  BY <1>2, Zenon DEF RowOrder, Precedes
<1> QED
  BY <1>3

\* An order that lists no row twice leaves none out.
LEMMA OrderIsOnto ==
    ASSUME NEW n \in Nat, NEW rows, \A i \in 1..n : rows[i].fromDate \in Int,
           NEW order \in [1..n -> 1..n],
           \A i, j \in 1..n : i < j => Precedes(rows, order[i], order[j])
    PROVE  \A i \in 1..n : \E k \in 1..n : order[k] = i
<1>1. \A i, j \in 1..n : order[i] = order[j] => i = j
  <2> SUFFICES ASSUME NEW i \in 1..n, NEW j \in 1..n, order[i] = order[j], i < j PROVE FALSE
    OBVIOUS
  <2>1. Precedes(rows, order[i], order[i])
    OBVIOUS
  <2> QED
    BY <2>1 DEF Precedes
<1>2. order \in Injection(1..n, 1..n)
  BY <1>1 DEF Injection, IsInjective
<1>3. order \in Surjection(1..n, 1..n)
  BY <1>2, FS_Interval, FS_Injection
<1> QED
  BY <1>3 DEF Surjection

\* Rules in the order of their instants, which may be negative.
Timed(rules, n) ==
    /\ n \in Nat /\ Len(rules) = n
    /\ \A i \in 1..n : rules[i].fromUtc \in Int
    /\ \A i, j \in 1..n : i < j => rules[i].fromUtc <= rules[j].fromUtc

\* resolvePenaltyAt: the rules passed are those in force or before.
LEMMA LoopParts ==
    ASSUME NEW n, NEW rules, Timed(rules, n), NEW at \in Int
    PROVE  /\ RulesPassed(rules, at) \in 0..n
           /\ \A k \in 1..n : k <= RulesPassed(rules, at) <=> rules[k].fromUtc <= at
<1> DEFINE passed == RulesPassed(rules, at)
           Exits == LoopExits(rules, at)
<1>1. Exits \subseteq Nat /\ n \in Exits
  BY DEF LoopExits, Timed
<1>2. PICK m \in Exits : \A k \in Exits : m <= k
  BY <1>1, LeastElement
<1>3. passed \in Exits /\ \A k \in Exits : passed <= k
  BY <1>2 DEF RulesPassed
<1>4. passed \in 0..n /\ (passed = n \/ rules[passed + 1].fromUtc > at)
  BY <1>3 DEF LoopExits, Timed
<1>5. ASSUME NEW k \in 1..n, k <= passed PROVE rules[k].fromUtc <= at
  <2> SUFFICES ASSUME rules[k].fromUtc > at PROVE FALSE
    BY DEF Timed
  <2>1. k - 1 \in Exits
    BY DEF LoopExits, Timed
  <2> QED
    BY <1>3, <1>4, <1>5, <2>1
<1>6. ASSUME NEW k \in 1..n, ~(k <= passed) PROVE ~(rules[k].fromUtc <= at)
  <2> HIDE DEF passed
  <2>1. passed + 1 \in 1..n /\ rules[passed + 1].fromUtc > at
    BY <1>4, <1>6 DEF Timed
  <2>2. rules[passed + 1].fromUtc <= rules[k].fromUtc
    BY <1>4, <1>6, <2>1 DEF Timed
  <2> QED
    BY <2>1, <2>2 DEF Timed
<1> QED
  BY <1>4, <1>5, <1>6

\* The policy the adapter makes of a rate's rows.
LEMMA PolicyOfRows ==
    ASSUME NEW n \in Nat, NEW rows, DOMAIN rows = 1..n, \A i \in 1..n : rows[i].fromDate \in Int,
           NEW net, NEW policy \in MapCancellationPolicy(rows, net)
    PROVE  /\ Timed(policy, n) /\ ValidPolicy(policy)
           /\ policy = [k \in 1..n |-> [fromUtc |-> TboDateTimeToUtc(rows[RowOrder(rows)[k]].fromDate),
                                        penalty |-> Penalty(rows[RowOrder(rows)[k]], net)]]
<1> DEFINE order == RowOrder(rows)
<1>1. policy = [k \in 1..n |-> [fromUtc |-> TboDateTimeToUtc(rows[order[k]].fromDate),
                                penalty |-> Penalty(rows[order[k]], net)]]
  BY DEF MapCancellationPolicy
<1>2. order \in [1..n -> 1..n] /\ \A i, j \in 1..n : i < j => Precedes(rows, order[i], order[j])
  BY RowOrderSorts
<1> HIDE DEF order
<1>3. Len(policy) = n
  BY <1>1
<1>4. \A k \in 1..n : policy[k].fromUtc = rows[order[k]].fromDate - TboUtcOffsetMinutes
  BY <1>1 DEF TboDateTimeToUtc
<1>5. Timed(policy, n)
  <2>1. \A k \in 1..n : rows[order[k]].fromDate \in Int
    BY <1>2
  <2>2. ASSUME NEW i \in 1..n, NEW j \in 1..n, i < j
        PROVE  rows[order[i]].fromDate <= rows[order[j]].fromDate
    <3>1. Precedes(rows, order[i], order[j])
      BY <1>2, <2>2
    <3> QED
      BY <2>1, <3>1 DEF Precedes
  <2>3. \A k \in 1..n : policy[k].fromUtc \in Int
    BY <1>4, <2>1, OffsetAssumption
  <2>4. ASSUME NEW i \in 1..n, NEW j \in 1..n, i < j
        PROVE  policy[i].fromUtc <= policy[j].fromUtc
    <3> DEFINE a == rows[order[i]].fromDate
               b == rows[order[j]].fromDate
    <3>1. a \in Int /\ b \in Int /\ a <= b
      BY <2>1, <2>2, <2>4
    <3>2. policy[i].fromUtc = a - TboUtcOffsetMinutes /\ policy[j].fromUtc = b - TboUtcOffsetMinutes
      BY <1>4
    <3> HIDE DEF a, b
    <3> QED
      BY <3>1, <3>2, OffsetAssumption
  <2> QED
    BY <1>3, <2>3, <2>4 DEF Timed
<1>6. ValidPolicy(policy)
  <2> SUFFICES ASSUME NEW i \in 2..n PROVE policy[i - 1].fromUtc <= policy[i].fromUtc
    BY <1>3 DEF ValidPolicy
  <2> QED
    BY <1>5 DEF Timed
<1> QED
  BY <1>1, <1>5, <1>6 DEF order

\* mapCancellationPolicy and resolvePenaltyAt, composed, for every rate.
LEMMA FeeOfRows ==
    ASSUME NEW n \in Nat, NEW rows, DOMAIN rows = 1..n, \A i \in 1..n : rows[i].fromDate \in Int,
           NEW net, NEW policy \in MapCancellationPolicy(rows, net), NEW at \in Int
    PROVE  ResolvePenaltyAt(policy, at) = {Penalty(rows[i], net) : i \in InForce(rows, at)}
<1> DEFINE order == RowOrder(rows)
           passed == RulesPassed(policy, at)
<1>1. /\ order \in [1..n -> 1..n]
      /\ \A i, j \in 1..n : i < j => Precedes(rows, order[i], order[j])
  BY RowOrderSorts
<1>2. \A i \in 1..n : \E k \in 1..n : order[k] = i
  BY <1>1, OrderIsOnto
<1>3. /\ Timed(policy, n)
      /\ policy = [k \in 1..n |-> [fromUtc |-> TboDateTimeToUtc(rows[order[k]].fromDate),
                                   penalty |-> Penalty(rows[order[k]], net)]]
  <2>1. Timed(policy, n)
    BY PolicyOfRows
  <2>2. policy = [k \in 1..n |-> [fromUtc |-> TboDateTimeToUtc(rows[order[k]].fromDate),
                                  penalty |-> Penalty(rows[order[k]], net)]]
    BY PolicyOfRows
  <2> QED
    BY <2>1, <2>2
<1>4. passed \in 0..n /\ \A k \in 1..n : k <= passed <=> policy[k].fromUtc <= at
  BY <1>3, LoopParts
<1> HIDE DEF order, passed
<1>5. \A k \in 1..n : k <= passed <=> TboDateTimeToUtc(rows[order[k]].fromDate) <= at
  BY <1>3, <1>4
<1>6. CASE passed = 0
  <2>1. ASSUME NEW i \in 1..n PROVE ~(TboDateTimeToUtc(rows[i].fromDate) <= at)
    <3>1. PICK k \in 1..n : order[k] = i
      BY <1>2
    <3> QED
      BY <1>5, <1>6, <3>1
  <2>2. InForce(rows, at) = {}
    BY <2>1 DEF InForce
  <2> QED
    BY <1>6, <2>2 DEF ResolvePenaltyAt, passed
<1>7. CASE passed # 0
  <2> DEFINE last == order[passed]
  <2>1. passed \in 1..n /\ last \in 1..n
    BY <1>1, <1>4, <1>7
  <2>2. TboDateTimeToUtc(rows[last].fromDate) <= at
    BY <1>5, <2>1
  <2>3. ASSUME NEW j \in 1..n, TboDateTimeToUtc(rows[j].fromDate) <= at, j # last
        PROVE  Precedes(rows, j, last)
    <3>1. PICK k \in 1..n : order[k] = j
      BY <1>2
    <3>2. k <= passed
      BY <1>5, <2>3, <3>1
    <3>3. k < passed
      BY <2>1, <2>3, <3>1, <3>2
    <3> QED
      BY <1>1, <2>1, <3>1, <3>3
  <2> HIDE DEF last
  <2>4. InForce(rows, at) = {last}
    <3>1. last \in InForce(rows, at)
      BY <2>1, <2>2, <2>3 DEF InForce, Precedes
    <3>2. ASSUME NEW i \in InForce(rows, at) PROVE i = last
      <4>1. i \in 1..n /\ TboDateTimeToUtc(rows[i].fromDate) <= at
        BY <3>2 DEF InForce
      <4>2. \/ rows[last].fromDate < rows[i].fromDate
            \/ rows[last].fromDate = rows[i].fromDate /\ last <= i
        BY <2>1, <2>2, <3>2 DEF InForce
      <4> QED
        BY <2>1, <2>3, <4>1, <4>2 DEF Precedes
    <3> QED
      BY <3>1, <3>2
  <2>5. ResolvePenaltyAt(policy, at) = {policy[passed].penalty}
    BY <1>7 DEF ResolvePenaltyAt, passed
  <2>6. policy[passed].penalty = Penalty(rows[last], net)
    BY <1>3, <2>1 DEF last
  <2> QED
    BY <2>4, <2>5, <2>6
<1> QED
  BY <1>6, <1>7
\* Whatever rows a rate carries, in whatever order: the fee resolvePenaltyAt
\* reads at an instant off the policy mapCancellationPolicy made is the charge
\* of the supplier's row in force then, and there is none before the first.
THEOREM EveryFeeIsTheSuppliers ==
    ASSUME NEW n \in Nat,
           asked.kind = "fee" =>
              /\ DOMAIN asked.rows = 1..n /\ \A i \in 1..n : asked.rows[i].fromDate \in Int
              /\ asked.at \in Int
    PROVE  FeeIsTheSuppliers
<1> SUFFICES ASSUME asked.kind = "fee", NEW policy \in MapCancellationPolicy(asked.rows, Net)
             PROVE  /\ ValidPolicy(policy)
                    /\ ResolvePenaltyAt(policy, asked.at) =
                          {Penalty(asked.rows[i], Net) : i \in InForce(asked.rows, asked.at)}
  BY DEF FeeIsTheSuppliers
<1>1. DOMAIN asked.rows = 1..n /\ (\A i \in 1..n : asked.rows[i].fromDate \in Int) /\ asked.at \in Int
  OBVIOUS
<1>2. ValidPolicy(policy)
  BY <1>1, PolicyOfRows
<1>3. ResolvePenaltyAt(policy, asked.at) =
         {Penalty(asked.rows[i], Net) : i \in InForce(asked.rows, asked.at)}
  BY <1>1, FeeOfRows
<1> QED
  BY <1>2, <1>3

-----------------------------------------------------------------------------
(* check, book, retrieve and cancel: the fee of what is booked.            *)

\* The rows of a rate as an answer may hold them: a deadline is an instant and
\* a charge the ratio its decimal denotes.
Rated(rows, n) ==
    /\ n \in Nat /\ DOMAIN rows = 1..n
    /\ \A i \in 1..n : /\ rows[i].fromDate \in Int
                       /\ rows[i].charge.numerator \in Int
                       /\ rows[i].charge.denominator \in Nat \ {0}

\* tboAmountToMoney yields whole minor units, whatever the currency.
LEMMA AmountsAreWhole ==
    ASSUME NEW charge, charge.numerator \in Int, charge.denominator \in Nat \ {0}, NEW currency
    PROVE  /\ TboAmountToMoney(charge, currency) \in Int
           /\ charge.numerator >= 0 => TboAmountToMoney(charge, currency) >= 0
<1>1. MinorDigits(currency) \in {0, 2, 3}
  BY DEF MinorDigits
<1>2. 10 ^ 0 = 1 /\ 10 ^ 2 = 100 /\ 10 ^ 3 = 1000
  OBVIOUS
<1> DEFINE scale == 10 ^ MinorDigits(currency)
           num == charge.numerator
           den == charge.denominator
           x == num * scale
<1>3. scale \in {1, 100, 1000}
  <2> DEFINE digits == MinorDigits(currency)
  <2>1. digits = 0 => 10 ^ digits = 10 ^ 0
    OBVIOUS
  <2>2. digits = 2 => 10 ^ digits = 10 ^ 2
    OBVIOUS
  <2>3. digits = 3 => 10 ^ digits = 10 ^ 3
    OBVIOUS
  <2> QED
    BY <1>1, <1>2, <2>1, <2>2, <2>3
<1> HIDE DEF scale
<1>4. x \in Int /\ (num >= 0 => x >= 0) /\ den \in Nat \ {0}
  BY <1>3
<1>5. TboAmountToMoney(charge, currency) = DivideRoundHalfAwayFromZero(x, den)
  BY DEF TboAmountToMoney, scale
<1> HIDE DEF x, den
<1>6. /\ DivideRoundHalfAwayFromZero(x, den) \in Int
      /\ x >= 0 => DivideRoundHalfAwayFromZero(x, den) >= 0
  BY <1>4, RoundsToNearest
<1> QED
  BY <1>4, <1>5, <1>6

\* What a row charges is whole minor units.
LEMMA PenaltiesAreWhole ==
    ASSUME NEW row, row.charge.numerator \in Int, row.charge.denominator \in Nat \ {0},
           NEW net, net.amount \in Int
    PROVE  Penalty(row, net) \in Int
<1>1. CASE row.chargeType = "Fixed"
  <2> DEFINE charge == row.charge
  <2>1. charge.numerator \in Int /\ charge.denominator \in Nat \ {0}
    OBVIOUS
  <2>2. Penalty(row, net) = TboAmountToMoney(charge, net.currency)
    BY <1>1 DEF Penalty
  <2> HIDE DEF charge
  <2> QED
    BY <2>1, <2>2, AmountsAreWhole
<1>2. CASE row.chargeType # "Fixed"
  <2> DEFINE num == row.charge.numerator
             den == row.charge.denominator * 100
             amount == net.amount
  <2>1. num \in Int /\ den \in Nat \ {0} /\ amount \in Int
    OBVIOUS
  <2>2. Penalty(row, net) = MultiplyByScalar(amount, num, den)
    BY <1>2 DEF Penalty
  <2> HIDE DEF num, den, amount
  <2> QED
    BY <2>1, <2>2, ScalesUp
<1> QED
  BY <1>1, <1>2

\* One row at most is in force.
LEMMA OneRowInForce ==
    ASSUME NEW n, NEW rows, Rated(rows, n), NEW at
    PROVE  \/ InForce(rows, at) = {}
           \/ \E i \in 1..n : InForce(rows, at) = {i}
<1>1. \A i \in 1..n : rows[i].fromDate \in Int
  BY DEF Rated
<1>2. InForce(rows, at) \subseteq 1..n
  BY DEF InForce, Rated
<1>3. ASSUME NEW i \in InForce(rows, at), NEW j \in InForce(rows, at) PROVE i = j
  <2>1. /\ \/ rows[j].fromDate < rows[i].fromDate
           \/ rows[j].fromDate = rows[i].fromDate /\ j <= i
        /\ \/ rows[i].fromDate < rows[j].fromDate
           \/ rows[i].fromDate = rows[j].fromDate /\ i <= j
    BY <1>3 DEF InForce
  <2>2. i \in Int /\ j \in Int /\ rows[i].fromDate \in Int /\ rows[j].fromDate \in Int
    BY <1>1, <1>2, <1>3
  <2> QED
    BY <2>1, <2>2
<1> QED
  BY <1>2, <1>3

\* The fee of a booking is that of the rows its policy was made of.
LEMMA FeeOfThePolicy ==
    ASSUME NEW n, NEW rows, Rated(rows, n), NEW net, net.amount \in Int,
           NEW policy \in MapCancellationPolicy(rows, net), NEW at \in Int
    PROVE  PenaltyFor(policy, at) = FeeAt(rows, net, at) /\ FeeAt(rows, net, at) \in Int
<1>1. n \in Nat /\ DOMAIN rows = 1..n /\ \A i \in 1..n : rows[i].fromDate \in Int
  BY DEF Rated
<1>2. ResolvePenaltyAt(policy, at) = {Penalty(rows[i], net) : i \in InForce(rows, at)}
  BY <1>1, FeeOfRows
<1> DEFINE F == InForce(rows, at)
           f == [i \in F |-> Penalty(rows[i], net)]
<1>3. DOMAIN f = F /\ FeeAt(rows, net, at) = SumFunctionOnSet(f, F)
  BY DEF FeeAt, SumFunction
<1>4. F = {} \/ \E i \in 1..n : F = {i}
  BY OneRowInForce
<1> HIDE DEF F
<1>5. CASE F = {}
  BY <1>2, <1>3, <1>5, SumOfNone DEF PenaltyFor, F
<1>6. CASE F # {}
  <2>1. PICK i \in 1..n : F = {i}
    BY <1>4, <1>6
  <2>2. rows[i].charge.numerator \in Int /\ rows[i].charge.denominator \in Nat \ {0}
    BY DEF Rated
  <2> DEFINE fee == Penalty(rows[i], net)
  <2>3. fee \in Int /\ f[i] = fee
    BY <2>1, <2>2, PenaltiesAreWhole
  <2> HIDE DEF f, fee
  <2>4. SumFunctionOnSet(f, F) = fee
    BY <2>1, <2>3, SumOfOne
  <2>5. ResolvePenaltyAt(policy, at) = {fee}
    BY <1>2, <2>1 DEF F, fee
  <2> QED
    BY <1>3, <2>3, <2>4, <2>5 DEF PenaltyFor
<1> QED
  BY <1>5, <1>6

\* A spelling names one board at most.
LEMMA OneBoard ==
    ASSUME NEW meal, NEW a \in NormalizeBoardBasis(meal), NEW b \in NormalizeBoardBasis(meal)
    PROVE  a = b
<1> DEFINE mentioned == {i \in DOMAIN Boards : Boards[i] \in Mentions[meal]}
<1>1. DOMAIN Boards = 1..5
  BY DEF Boards
<1>2. PICK i \in mentioned : a = Boards[i] /\ \A j \in mentioned : i <= j
  BY DEF NormalizeBoardBasis
<1>3. PICK k \in mentioned : b = Boards[k] /\ \A j \in mentioned : k <= j
  BY DEF NormalizeBoardBasis
<1>4. i \in Int /\ k \in Int /\ i <= k /\ k <= i
  BY <1>1, <1>2, <1>3
<1> QED
  BY <1>2, <1>3, <1>4

\* What mapRoom makes of a rate, if it does not throw.
LEMMA OfferOfRoom ==
    ASSUME NEW room, NEW currency, NEW offer \in MapRoom(room, currency)
    PROVE  /\ offer.net = NetOf(room, currency)
           /\ \E rules \in MapCancellationPolicy(room.rows, offer.net) :
                 /\ offer.policy = Policy(room, rules)
                 /\ offer.token = Token(room, currency, Policy(room, rules))
           /\ offer.boardBasis \in NormalizeBoardBasis(room.mealType)
           /\ ~("error" \in DOMAIN offer)
<1> DEFINE net == NetOf(room, currency)
<1>1. PICK board \in NormalizeBoardBasis(room.mealType),
           rules \in IF Safe(net.amount) THEN MapCancellationPolicy(room.rows, net) ELSE {} :
              offer = [boardBasis |-> board, net |-> net, policy |-> Policy(room, rules),
                       token |-> Token(room, currency, Policy(room, rules))]
  BY DEF MapRoom
<1>2. rules \in MapCancellationPolicy(room.rows, net)
  BY <1>1
<1> QED
  BY <1>1, <1>2

\* There is one such offer.
LEMMA OneOffer ==
    ASSUME NEW room, NEW currency, NEW a \in MapRoom(room, currency), NEW b \in MapRoom(room, currency)
    PROVE  a = b
<1> DEFINE net == NetOf(room, currency)
<1>1. PICK board \in NormalizeBoardBasis(room.mealType),
           rules \in IF Safe(net.amount) THEN MapCancellationPolicy(room.rows, net) ELSE {} :
              a = [boardBasis |-> board, net |-> net, policy |-> Policy(room, rules),
                   token |-> Token(room, currency, Policy(room, rules))]
  BY DEF MapRoom
<1>2. PICK board2 \in NormalizeBoardBasis(room.mealType),
           rules2 \in IF Safe(net.amount) THEN MapCancellationPolicy(room.rows, net) ELSE {} :
              b = [boardBasis |-> board2, net |-> net, policy |-> Policy(room, rules2),
                   token |-> Token(room, currency, Policy(room, rules2))]
  BY DEF MapRoom
<1>3. rules = rules2
  BY <1>1, <1>2 DEF MapCancellationPolicy
<1>4. board = board2
  BY <1>1, <1>2, OneBoard
<1> QED
  BY <1>1, <1>2, <1>3, <1>4

\* The policy made of n rows is a list of n rules.
LEMMA PolicyIsAList ==
    ASSUME NEW n, NEW rows, Rated(rows, n), NEW net, NEW policy \in MapCancellationPolicy(rows, net)
    PROVE  DOMAIN policy = 1..n /\ Len(policy) = n /\ policy = [k \in 1..n |-> policy[k]]
<1>1. n \in Nat /\ DOMAIN rows = 1..n /\ \A i \in 1..n : rows[i].fromDate \in Int
  BY DEF Rated
<1>2. /\ Timed(policy, n)
      /\ policy = [k \in 1..n |-> [fromUtc |-> TboDateTimeToUtc(rows[RowOrder(rows)[k]].fromDate),
                                   penalty |-> Penalty(rows[RowOrder(rows)[k]], net)]]
  <2>1. Timed(policy, n)
    BY <1>1, PolicyOfRows
  <2>2. policy = [k \in 1..n |-> [fromUtc |-> TboDateTimeToUtc(rows[RowOrder(rows)[k]].fromDate),
                                  penalty |-> Penalty(rows[RowOrder(rows)[k]], net)]]
    BY <1>1, PolicyOfRows
  <2> QED
    BY <2>1, <2>2
<1> QED
  BY <1>2 DEF Timed

\* A revalidation that was answered, and rates that can be read.
Answered(question, n, m) ==
    /\ Rated(question.rate.rows, n)
    /\ question.rate.fare.numerator \in Int /\ question.rate.fare.denominator \in Nat \ {0}
    /\ Succeeded(question.answer) /\ question.answer.currency = RateCurrency
    /\ question.answer.rooms # <<>> =>
          /\ Rated(question.answer.rooms[1].rows, m)
          /\ question.answer.rooms[1].fare.numerator \in Int
          /\ question.answer.rooms[1].fare.denominator \in Nat \ {0}

\* The first room of an answer can be read, if there is one.
Readable(answer, m) == answer.rooms # <<>> => Rated(answer.rooms[1].rows, m)

\* check, asked about a rate as it was priced, answers with an offer.
Accepts(rate, priced, answer, n, m) ==
    /\ Rated(rate.rows, n) /\ Readable(answer, m)
    /\ Succeeded(answer) /\ answer.currency = RateCurrency
    /\ priced \in MapRoom(rate, RateCurrency)
    /\ ~IsError(Check(priced.token, answer))

\* check accepts the rate that was priced and no other.
LEMMA AcceptedRate ==
    ASSUME NEW rate, NEW priced, NEW answer, NEW n, NEW m, Accepts(rate, priced, answer, n, m)
    PROVE  LET checked == Check(priced.token, answer)
           IN  /\ checked \in MapRoom(answer.rooms[1], RateCurrency)
               /\ checked.net = priced.net
               /\ checked.policy.rules = priced.policy.rules
               /\ answer.rooms # <<>>
<1> DEFINE checked == Check(priced.token, answer)
<1> USE DEF Accepts
<1> DEFINE room == answer.rooms[1]
           offer == CHOOSE o \in MapRoom(room, RateCurrency) : TRUE
<1>1. \A kind : IsError(Failed(kind))
  BY DEF IsError, Failed
<1>2. /\ answer.rooms # <<>> /\ ~Unmappable(room) /\ ~Throws(room, RateCurrency)
      /\ offer.net = PricedNet(priced.token) /\ PolicyEquals(offer.policy, priced.token.policy)
      /\ checked = offer
  BY <1>1 DEF Check
<1>3. MapRoom(room, RateCurrency) # {}
  BY <1>2 DEF Throws
<1>4. checked \in MapRoom(room, RateCurrency)
  BY <1>2, <1>3
<1>5. /\ priced.net = NetOf(rate, RateCurrency)
      /\ \E rules \in MapCancellationPolicy(rate.rows, priced.net) :
            /\ priced.policy = Policy(rate, rules)
            /\ priced.token = Token(rate, RateCurrency, Policy(rate, rules))
  BY OfferOfRoom
<1>6. PICK rules \in MapCancellationPolicy(rate.rows, priced.net) :
         /\ priced.policy = Policy(rate, rules)
         /\ priced.token = Token(rate, RateCurrency, Policy(rate, rules))
  BY <1>5
<1>7. PricedNet(priced.token) = priced.net /\ priced.token.policy = priced.policy
  BY <1>5, <1>6 DEF PricedNet, Token, NetOf
<1> HIDE DEF room, offer
<1>8. PICK rules2 \in MapCancellationPolicy(room.rows, checked.net) : checked.policy = Policy(room, rules2)
  BY <1>4, OfferOfRoom
<1>9. Rated(rate.rows, n) /\ Rated(room.rows, m)
  BY <1>2 DEF Readable, room
<1>10. /\ DOMAIN rules = 1..n /\ Len(rules) = n /\ rules = [k \in 1..n |-> rules[k]]
       /\ DOMAIN rules2 = 1..m /\ Len(rules2) = m /\ rules2 = [k \in 1..m |-> rules2[k]]
  <2> DEFINE old == rate.rows
             new == room.rows
  <2>1. /\ Rated(old, n) /\ rules \in MapCancellationPolicy(old, priced.net)
        /\ Rated(new, m) /\ rules2 \in MapCancellationPolicy(new, checked.net)
    BY <1>9
  <2> HIDE DEF old, new
  <2> QED
    BY <2>1, PolicyIsAList
<1>12. priced.policy.rules = rules /\ checked.policy.rules = rules2
  BY <1>6, <1>8 DEF Policy
<1>13. PolicyEquals(checked.policy, priced.policy)
  BY <1>2, <1>7
<1>14. rules = rules2
  BY <1>10, <1>12, <1>13 DEF PolicyEquals
<1> QED
  BY <1>2, <1>4, <1>7, <1>12, <1>14 DEF room

\* check and book, for rates of any number of rows: a rate TBO did not touch
\* is accepted, and one that is accepted is booked at the net and under the fees
\* it was priced at, which are still the supplier's.
THEOREM WhatIsAcceptedIsAsPriced ==
    ASSUME NEW n, NEW m, asked.kind = "check" => Answered(asked, n, m)
    PROVE  AcceptedIsAsPriced
<1> DEFINE rate == asked.rate
           rooms == asked.answer.rooms
           confirmed == [TboAnswer(<<>>) EXCEPT !.confirmationNumber = {"n"}]
<1> SUFFICES ASSUME asked.kind = "check", NEW priced \in MapRoom(rate, RateCurrency)
             PROVE  LET checked == Check(priced.token, asked.answer)
                        booked  == Book(checked.token, "ref", confirmed)
                    IN  /\ rooms = <<rate>> => checked = priced
                        /\ ~IsError(checked) =>
                              /\ booked.net = NetOf(rate, RateCurrency)
                              /\ booked.net = NetOf(rooms[1], RateCurrency)
                              /\ booked.policy.refundable = rooms[1].refundable
                              /\ \A at \in Instants :
                                    /\ PenaltyFor(booked.policy.rules, at) = FeeAt(rate.rows, booked.net, at)
                                    /\ PenaltyFor(booked.policy.rules, at) = FeeAt(rooms[1].rows, booked.net, at)
  BY DEF AcceptedIsAsPriced
<1> DEFINE checked == Check(priced.token, asked.answer)
           booked == Book(checked.token, "ref", confirmed)
<1>1. Answered(asked, n, m)
  OBVIOUS
<1>2. priced.net = NetOf(rate, RateCurrency) /\ priced.net.amount \in Int
  <2>1. priced.net = NetOf(rate, RateCurrency)
    BY OfferOfRoom
  <2> DEFINE fare == rate.fare
  <2>2. fare.numerator \in Int /\ fare.denominator \in Nat \ {0}
    BY <1>1 DEF Answered
  <2>3. priced.net.amount = TboAmountToMoney(fare, RateCurrency)
    BY <2>1 DEF NetOf
  <2> HIDE DEF fare
  <2> QED
    BY <2>1, <2>2, <2>3, AmountsAreWhole
<1>3. ASSUME rooms = <<rate>> PROVE checked = priced
  <2>1. rooms[1] = rate /\ rooms # <<>>
    BY <1>3
  <2>2. Succeeded(asked.answer) /\ asked.answer.currency = RateCurrency
    BY <1>1 DEF Answered
  <2>3. (CHOOSE o \in MapRoom(rate, RateCurrency) : TRUE) = priced
    BY OneOffer
  <2>4. ~Unmappable(rate) /\ ~Throws(rate, RateCurrency)
    BY OfferOfRoom DEF Unmappable, Throws
  <2>5. PricedNet(priced.token) = priced.net /\ priced.token.policy = priced.policy
    <3>1. PICK rules \in MapCancellationPolicy(rate.rows, priced.net) :
             /\ priced.policy = Policy(rate, rules)
             /\ priced.token = Token(rate, RateCurrency, Policy(rate, rules))
      BY OfferOfRoom
    <3> QED
      BY <1>2, <3>1 DEF PricedNet, Token, NetOf
  <2>6. PolicyEquals(priced.policy, priced.token.policy)
    BY <2>5 DEF PolicyEquals
  <2> HIDE DEF rooms
  <2> QED
    BY <2>1, <2>2, <2>3, <2>4, <2>5, <2>6 DEF Check, rooms
<1>4. ASSUME ~IsError(checked)
      PROVE  /\ booked.net = NetOf(rate, RateCurrency)
             /\ booked.net = NetOf(rooms[1], RateCurrency)
             /\ booked.policy.refundable = rooms[1].refundable
             /\ \A at \in Instants :
                   /\ PenaltyFor(booked.policy.rules, at) = FeeAt(rate.rows, booked.net, at)
                   /\ PenaltyFor(booked.policy.rules, at) = FeeAt(rooms[1].rows, booked.net, at)
  <2> DEFINE answer == asked.answer
  <2>0. Accepts(rate, priced, answer, n, m) /\ rooms = answer.rooms
    BY <1>1, <1>4 DEF Accepts, Answered, Readable
  <2> HIDE DEF checked, rooms, rate, answer
  <2>1. /\ checked \in MapRoom(rooms[1], RateCurrency) /\ checked.net = priced.net
        /\ checked.policy.rules = priced.policy.rules /\ rooms # <<>>
    BY <2>0, AcceptedRate DEF checked, answer
  <2>2. PICK rules \in MapCancellationPolicy(rooms[1].rows, checked.net) :
           /\ checked.policy = Policy(rooms[1], rules)
           /\ checked.token = Token(rooms[1], RateCurrency, Policy(rooms[1], rules))
           /\ checked.net = NetOf(rooms[1], RateCurrency)
    BY <2>1, OfferOfRoom
  <2>3. Succeeded(confirmed) /\ confirmed.confirmationNumber = {"n"}
    BY DEF Succeeded, HttpOk, Usable, TboAnswer
  <2> HIDE DEF confirmed
  <2>4. booked.net = PricedNet(checked.token) /\ booked.policy = checked.token.policy
    BY <2>3 DEF Book
  <2>5. booked.net = checked.net /\ booked.policy = checked.policy
    BY <2>2, <2>4 DEF PricedNet, Token, NetOf
  <2> HIDE DEF booked
  <2>6. booked.policy.rules = rules /\ booked.policy.refundable = rooms[1].refundable
    BY <2>2, <2>5 DEF Policy
  <2>7. PICK old \in MapCancellationPolicy(rate.rows, priced.net) : priced.policy = Policy(rate, old)
    BY OfferOfRoom DEF rate
  <2>8. old = rules
    BY <2>1, <2>2, <2>7 DEF Policy
  <2>9. Rated(rate.rows, n) /\ Rated(rooms[1].rows, m)
    BY <1>1, <2>1 DEF Answered, rate, rooms
  <2>10. ASSUME NEW at \in Instants
         PROVE  /\ PenaltyFor(rules, at) = FeeAt(rate.rows, booked.net, at)
                /\ PenaltyFor(rules, at) = FeeAt(rooms[1].rows, booked.net, at)
    <3>1. at \in Int
      BY OffsetAssumption DEF Instants
    <3> DEFINE net == booked.net
               mine == rate.rows
               theirs == rooms[1].rows
    <3>2. /\ net.amount \in Int /\ Rated(mine, n) /\ Rated(theirs, m)
          /\ rules \in MapCancellationPolicy(mine, net) /\ rules \in MapCancellationPolicy(theirs, net)
      BY <1>2, <2>1, <2>2, <2>5, <2>7, <2>8, <2>9
    <3> HIDE DEF net, mine, theirs
    <3>3. PenaltyFor(rules, at) = FeeAt(mine, net, at) /\ PenaltyFor(rules, at) = FeeAt(theirs, net, at)
      BY <3>1, <3>2, FeeOfThePolicy
    <3> QED
      BY <3>3 DEF net, mine, theirs
  <2> QED
    BY <1>2, <2>1, <2>2, <2>5, <2>6, <2>10 DEF rate
<1> QED
  BY <1>3, <1>4

\* What is listed is a finite set.
LEMMA ListedAreFinite ==
    ASSUME NEW n \in Nat, NEW f, DOMAIN f = 1..n
    PROVE  IsFiniteSet({f[i] : i \in 1..n})
<1> DEFINE T == {f[i] : i \in 1..n}
           g == [i \in 1..n |-> f[i]]
<1>1. g \in Surjection(1..n, T)
  BY DEF Surjection
<1>2. IsFiniteSet(1..n)
  BY IntervalSize
<1> HIDE DEF g, T
<1>3. IsFiniteSet(T)
  BY <1>1, <1>2, FS_Surjection
<1> QED
  BY <1>3 DEF T

\* A finite set of instants has an order, which leaves none out.
LEMMA AscendingOrders ==
    ASSUME NEW S, IsFiniteSet(S), S \subseteq Int
    PROVE  /\ Cardinality(S) \in Nat /\ Ascending(S) \in [1..Cardinality(S) -> S]
           /\ \A i, j \in 1..Cardinality(S) : i < j => Ascending(S)[i] < Ascending(S)[j]
           /\ \A s \in S : \E i \in 1..Cardinality(S) : Ascending(S)[i] = s
<1> DEFINE n == Cardinality(S)
<1>1. n \in Nat
  BY FS_CardinalityType
<1>2. PICK g : g \in Bijection(1..n, S)
  BY FS_NatBijection, FS_CountingElements, FS_CardinalityType DEF ExistsBijection
<1>3. g \in [1..n -> S] /\ \A i, j \in 1..n : g[i] = g[j] => i = j
  BY <1>2 DEF Bijection, Injection, Surjection, IsInjective
<1> HIDE DEF n
<1>4. \E order \in [1..n -> S] : \A i, j \in 1..n : i < j => order[i] < order[j]
  <2> DEFINE rows == [i \in 1..n |-> [fromDate |-> g[i]]]
  <2>1. \A i \in 1..n : rows[i].fromDate = g[i] /\ rows[i].fromDate \in Int
    BY <1>3
  <2> HIDE DEF rows
  <2>2. PICK order \in [1..n -> 1..n] :
           \A i, j \in 1..n : i < j => Precedes(rows, order[i], order[j])
    BY <1>1, <2>1, RowsCanBeOrdered
  <2> DEFINE h == [i \in 1..n |-> g[order[i]]]
  <2>3. h \in [1..n -> S]
    BY <1>3
  <2>4. ASSUME NEW i \in 1..n, NEW j \in 1..n, i < j PROVE h[i] < h[j]
    <3>1. Precedes(rows, order[i], order[j]) /\ order[i] \in 1..n /\ order[j] \in 1..n
      BY <2>2, <2>4
    <3>2. g[order[i]] < g[order[j]] \/ (g[order[i]] = g[order[j]] /\ order[i] < order[j])
      BY <2>1, <3>1 DEF Precedes
    <3>3. g[order[i]] < g[order[j]]
      BY <1>3, <3>1, <3>2
    <3> QED
      BY <3>3
  <2> HIDE DEF h
  <2> QED
    BY <2>3, <2>4
<1> DEFINE f == Ascending(S)
<1>5. f \in [1..n -> S] /\ \A i, j \in 1..n : i < j => f[i] < f[j]
  BY <1>4, Zenon DEF Ascending, n
<1> HIDE DEF f
<1>6. \A i, j \in 1..n : f[i] = f[j] => i = j
  <2> SUFFICES ASSUME NEW i \in 1..n, NEW j \in 1..n, f[i] = f[j], i < j PROVE FALSE
    OBVIOUS
  <2>1. f[i] < f[j] /\ f[i] \in Int
    BY <1>5
  <2> QED
    BY <2>1
<1>7. \A s \in S : \E i \in 1..n : f[i] = s
  <2>1. IsFiniteSet(1..n) /\ Cardinality(1..n) = n
    BY <1>1, IntervalSize
  <2>2. f \in Injection(1..n, S)
    BY <1>5, <1>6 DEF Injection, IsInjective
  <2>3. f \in Surjection(1..n, S)
    BY <2>1, <2>2, FS_Injection DEF n
  <2> QED
    BY <2>3 DEF Surjection
<1> QED
  BY <1>1, <1>5, <1>7 DEF n, f

\* A sum of nothing but zeros.
LEMMA SumOfZeros ==
    ASSUME NEW S, IsFiniteSet(S), NEW f, \A x \in S : f[x] = 0
    PROVE  SumFunctionOnSet(f, S) = 0
<1>1. \A x \in S : f[x] \in Int
  OBVIOUS
<1>2. PICK g : AddsUp(f, S, g) /\ SumFunctionOnSet(f, S) = g[S]
  BY <1>1, SumAddsUp
<1> DEFINE Good == {s \in SUBSET S : g[s] = 0}
<1>3. {} \in Good
  BY <1>2 DEF AddsUp
<1>6. ASSUME NEW s \in SUBSET S, s # {}, \A x \in s : s \ {x} \in Good PROVE s \in Good
  <2>1. PICK x \in s : g[s] = f[x] + g[s \ {x}]
    BY <1>2, <1>6 DEF AddsUp
  <2>2. g[s \ {x}] = 0 /\ f[x] = 0
    BY <1>6
  <2> QED
    BY <2>1, <2>2
<1>4. \A s \in SUBSET S : s # {} /\ (\A x \in s : s \ {x} \in Good) => s \in Good
  BY <1>6
<1> HIDE DEF Good
<1>5. \A s \in SUBSET S : s \in Good
  BY <1>3, <1>4, SubsetInduct
<1> QED
  BY <1>2, <1>5 DEF Good

\* Policies whose rules are in order.
Mergeable(policies, k, counts) ==
    /\ k \in Nat /\ DOMAIN policies = 1..k
    /\ \A p \in 1..k : /\ Timed(policies[p].rules, counts[p])
                       /\ DOMAIN policies[p].rules = 1..counts[p]

\* The instants of policies are finitely many.
LEMMA FewInstants ==
    ASSUME NEW policies, NEW k, NEW counts, Mergeable(policies, k, counts)
    PROVE  /\ IsFiniteSet(InstantsOf(policies)) /\ InstantsOf(policies) \subseteq Int
           /\ \A p \in 1..k : \A i \in 1..counts[p] : policies[p].rules[i].fromUtc \in InstantsOf(policies)
<1>1. /\ k \in Nat /\ DOMAIN policies = 1..k
      /\ \A p \in 1..k : /\ counts[p] \in Nat /\ DOMAIN policies[p].rules = 1..counts[p]
                         /\ \A i \in 1..counts[p] : policies[p].rules[i].fromUtc \in Int
  BY DEF Mergeable, Timed
<1> DEFINE Of(p) == {policies[p].rules[i].fromUtc : i \in 1..counts[p]}
           f == [p \in 1..k |-> Of(p)]
<1>2. InstantsOf(policies) = UNION {f[p] : p \in 1..k}
  BY <1>1 DEF InstantsOf
<1>3. \A p \in 1..k : f[p] = Of(p)
  OBVIOUS
<1>4. ASSUME NEW p \in 1..k PROVE IsFiniteSet(f[p])
  <2> DEFINE n == counts[p]
             g == [i \in 1..n |-> policies[p].rules[i].fromUtc]
  <2>1. n \in Nat /\ DOMAIN g = 1..n /\ f[p] = {g[i] : i \in 1..n}
    BY <1>1, <1>3
  <2> HIDE DEF n, g, f
  <2> QED
    BY <2>1, ListedAreFinite
<1>5. DOMAIN f = 1..k
  OBVIOUS
<1> HIDE DEF f
<1>6. IsFiniteSet({f[p] : p \in 1..k})
  BY <1>1, <1>5, ListedAreFinite
<1>7. IsFiniteSet(InstantsOf(policies))
  <2> DEFINE T == {f[p] : p \in 1..k}
  <2>1. IsFiniteSet(T) /\ (\A t \in T : IsFiniteSet(t)) /\ InstantsOf(policies) = UNION T
    BY <1>2, <1>4, <1>6
  <2> HIDE DEF T
  <2> QED
    BY <2>1, FS_UNION
<1>8. InstantsOf(policies) \subseteq Int
  BY <1>1, <1>2, <1>3
<1>9. \A p \in 1..k : \A i \in 1..counts[p] : policies[p].rules[i].fromUtc \in InstantsOf(policies)
  BY <1>2, <1>3
<1> QED
  BY <1>7, <1>8, <1>9

\* mergeCancellationPolicies, of more policies than one: at every instant the
\* fee of the merged policy is the sum of theirs.
LEMMA MergedFee ==
    ASSUME NEW policies, NEW k, NEW counts, Mergeable(policies, k, counts), Len(policies) # 1,
           NEW at \in Int
    PROVE  PenaltyFor(MergeCancellationPolicies(policies).rules, at)
              = SumFunction([p \in DOMAIN policies |-> PenaltyFor(policies[p].rules, at)])
<1> DEFINE S == InstantsOf(policies)
           n == Cardinality(S)
           ordered == Ascending(S)
           rules == [j \in DOMAIN ordered |->
                        [fromUtc |-> ordered[j],
                         penalty |-> SumFunction([p \in DOMAIN policies |->
                                        PenaltyFor(policies[p].rules, ordered[j])])]]
           P == DOMAIN policies
<1>1. MergeCancellationPolicies(policies).rules = rules
  BY DEF MergeCancellationPolicies
<1>2. /\ IsFiniteSet(S) /\ S \subseteq Int
      /\ \A p \in 1..k : \A i \in 1..counts[p] : policies[p].rules[i].fromUtc \in S
  BY FewInstants
<1>3. k \in Nat /\ P = 1..k /\ \A p \in 1..k : Timed(policies[p].rules, counts[p])
  BY DEF Mergeable
<1> HIDE DEF S
<1>4. /\ n \in Nat /\ ordered \in [1..n -> S]
      /\ \A i, j \in 1..n : i < j => ordered[i] < ordered[j]
      /\ \A s \in S : \E i \in 1..n : ordered[i] = s
  BY <1>2, AscendingOrders
<1> HIDE DEF n, ordered
<1>5. /\ DOMAIN rules = 1..n /\ Len(rules) = n
      /\ \A j \in 1..n : /\ rules[j].fromUtc = ordered[j]
                         /\ rules[j].penalty = SumFunction([p \in P |-> PenaltyFor(policies[p].rules, ordered[j])])
  BY <1>4
<1> HIDE DEF rules
<1>6. Timed(rules, n)
  <2>1. \A j \in 1..n : ordered[j] \in Int
    BY <1>2, <1>4
  <2>2. ASSUME NEW i \in 1..n, NEW j \in 1..n, i < j
        PROVE  rules[i].fromUtc <= rules[j].fromUtc
    <3>1. ordered[i] < ordered[j] /\ ordered[i] \in Int /\ ordered[j] \in Int
      BY <1>4, <2>1, <2>2
    <3>2. rules[i].fromUtc = ordered[i] /\ rules[j].fromUtc = ordered[j]
      BY <1>5
    <3> QED
      BY <3>1, <3>2
  <2> QED
    BY <1>4, <1>5, <2>1, <2>2 DEF Timed
<1> DEFINE q == RulesPassed(rules, at)
<1>7. q \in 0..n /\ \A j \in 1..n : j <= q <=> rules[j].fromUtc <= at
  BY <1>6, LoopParts
<1>8. \A j \in 1..n : j <= q <=> ordered[j] <= at
  BY <1>5, <1>7
<1> DEFINE Passed(p, t) == RulesPassed(policies[p].rules, t)
<1>9. ASSUME NEW p \in 1..k, NEW t \in Int
      PROVE  /\ counts[p] \in Nat /\ Passed(p, t) \in 0..counts[p]
             /\ \A i \in 1..counts[p] : i <= Passed(p, t) <=> policies[p].rules[i].fromUtc <= t
  <2> DEFINE mine == policies[p].rules
             c == counts[p]
  <2>1. Timed(mine, c) /\ c \in Nat
    BY <1>3 DEF Timed
  <2> HIDE DEF mine, c
  <2>2. RulesPassed(mine, t) \in 0..c /\ \A i \in 1..c : i <= RulesPassed(mine, t) <=> mine[i].fromUtc <= t
    BY <2>1, LoopParts
  <2> QED
    BY <2>1, <2>2 DEF mine, c
<1> HIDE DEF q, Passed
<1>10. CASE q = 0
  <2>1. ASSUME NEW p \in 1..k PROVE Passed(p, at) = 0
    <3>1. \A i \in 1..counts[p] : ~(policies[p].rules[i].fromUtc <= at)
      <4> TAKE i \in 1..counts[p]
      <4>1. PICK j \in 1..n : ordered[j] = policies[p].rules[i].fromUtc
        BY <1>2, <1>4
      <4> QED
        BY <1>8, <1>10, <4>1
    <3> QED
      BY <1>9, <3>1
  <2> DEFINE f == [p \in P |-> PenaltyFor(policies[p].rules, at)]
  <2>2. \A p \in P : f[p] = 0
    BY <1>3, <2>1 DEF Passed, PenaltyFor, ResolvePenaltyAt
  <2>3. SumFunction(f) = SumFunctionOnSet(f, P)
    BY DEF SumFunction
  <2>4. IsFiniteSet(P)
    BY <1>3, IntervalSize
  <2> HIDE DEF f, P
  <2>5. SumFunction(f) = 0
    BY <2>2, <2>3, <2>4, SumOfZeros
  <2>6. PenaltyFor(rules, at) = 0
    BY <1>10 DEF PenaltyFor, ResolvePenaltyAt, q
  <2> QED
    BY <1>1, <2>5, <2>6 DEF f, P, rules
<1>11. CASE q # 0
  <2> DEFINE t == ordered[q]
  <2>0. q \in 1..n
    BY <1>4, <1>7, <1>11
  <2>1. q \in 1..n /\ t \in S /\ t \in Int
    BY <1>2, <1>4, <2>0
  <2>2. t <= at
    BY <1>8, <2>1
  <2>3. ASSUME NEW s \in S, s <= at PROVE s <= t
    <3>1. PICK j \in 1..n : ordered[j] = s
      BY <1>4
    <3>2. j <= q
      BY <1>8, <2>3, <3>1
    <3>3. j = q \/ j < q
      BY <2>1, <3>2
    <3> QED
      BY <1>2, <1>4, <2>1, <3>1, <3>3
  <2> HIDE DEF t
  <2>4. ASSUME NEW p \in 1..k PROVE Passed(p, at) = Passed(p, t)
    <3>1. \A i \in 1..counts[p] : policies[p].rules[i].fromUtc <= at <=> policies[p].rules[i].fromUtc <= t
      <4> TAKE i \in 1..counts[p]
      <4> DEFINE s == policies[p].rules[i].fromUtc
      <4>1. s \in S /\ s \in Int
        BY <1>2
      <4> HIDE DEF s
      <4>2. s <= at <=> s <= t
        BY <2>1, <2>2, <2>3, <4>1
      <4> QED
        BY <4>2 DEF s
    <3>2. /\ counts[p] \in Nat /\ Passed(p, at) \in 0..counts[p] /\ Passed(p, t) \in 0..counts[p]
          /\ \A i \in 1..counts[p] : i <= Passed(p, at) <=> i <= Passed(p, t)
      BY <1>9, <2>1, <3>1
    <3> DEFINE a == Passed(p, at)
               b == Passed(p, t)
               c == counts[p]
    <3>3. c \in Nat /\ a \in 0..c /\ b \in 0..c /\ \A i \in 1..c : i <= a <=> i <= b
      BY <3>2
    <3> HIDE DEF a, b, c
    <3>4. a <= b /\ b <= a
      <4>1. a = 0 \/ a \in 1..c
        BY <3>3
      <4>2. b = 0 \/ b \in 1..c
        BY <3>3
      <4>3. a \in 1..c => a <= b
        BY <3>3
      <4>4. b \in 1..c => b <= a
        BY <3>3
      <4> QED
        BY <3>3, <4>1, <4>2, <4>3, <4>4
    <3>5. a = b
      BY <3>3, <3>4
    <3> QED
      BY <3>5 DEF a, b
  <2>5. ASSUME NEW p \in P PROVE PenaltyFor(policies[p].rules, at) = PenaltyFor(policies[p].rules, t)
    <3> DEFINE mine == policies[p].rules
    <3>1. RulesPassed(mine, at) = RulesPassed(mine, t)
      BY <1>3, <2>4 DEF Passed
    <3> HIDE DEF mine
    <3>2. ResolvePenaltyAt(mine, at) = ResolvePenaltyAt(mine, t)
      BY <3>1 DEF ResolvePenaltyAt
    <3> QED
      BY <3>2 DEF mine, PenaltyFor
  <2>6. [p \in P |-> PenaltyFor(policies[p].rules, at)] = [p \in P |-> PenaltyFor(policies[p].rules, t)]
    BY <2>5
  <2>7. rules[q].penalty = SumFunction([p \in P |-> PenaltyFor(policies[p].rules, t)])
    BY <1>5, <2>1 DEF t
  <2>8. PenaltyFor(rules, at) = rules[q].penalty
    BY <1>11 DEF PenaltyFor, ResolvePenaltyAt, q
  <2> QED
    BY <1>1, <2>6, <2>7, <2>8 DEF rules
<1> QED
  BY <1>10, <1>11

\* A record of TBO's of k rooms, whose rows can be read.
Detailed(answer, k, counts) ==
    /\ k \in Nat /\ DOMAIN answer.rooms = 1..k
    /\ k > 0 => answer.rooms[1].currency = RateCurrency
    /\ \A i \in 1..k :
          /\ Rated(answer.rooms[i].rows, counts[i])
          /\ answer.rooms[i].fare.numerator \in Int
          /\ answer.rooms[i].fare.denominator \in Nat \ {0}
          /\ answer.rooms[i].refundable \in BOOLEAN

\* What retrieve merges.
PoliciesOf(rooms) ==
    [i \in DOMAIN rooms |->
        [refundable |-> rooms[i].refundable,
         rules |-> CHOOSE r \in MapCancellationPolicy(rooms[i].rows, NetOf(rooms[i], rooms[1].currency)) : TRUE]]

\* retrieve, if it answers.
LEMMA RetrievedRecord ==
    ASSUME NEW ref, NEW answer, ~IsError(Retrieve(ref, answer))
    PROVE  LET record == Retrieve(ref, answer)
               rooms  == answer.rooms
               currency == rooms[1].currency
           IN  /\ \A i \in DOMAIN rooms :
                     /\ rooms[i].currency = currency
                     /\ MapCancellationPolicy(rooms[i].rows, NetOf(rooms[i], currency)) # {}
               /\ record.net.amount = SumFunction([i \in DOMAIN rooms |-> NetOf(rooms[i], currency).amount])
               /\ record.policy = MergeCancellationPolicies(PoliciesOf(rooms))
               /\ record.status = "cancelled" => answer.bookingStatus \in {"cancelled", "canceled"}
<1> DEFINE record   == Retrieve(ref, answer)
           rooms    == answer.rooms
           currency == rooms[1].currency
           nets     == [i \in DOMAIN rooms |-> NetOf(rooms[i], currency)]
           amounts  == [i \in DOMAIN rooms |-> nets[i].amount]
           rules(i) == MapCancellationPolicy(rooms[i].rows, nets[i])
           merged   == MergeCancellationPolicies([i \in DOMAIN rooms |->
                           [refundable |-> rooms[i].refundable,
                            rules |-> CHOOSE r \in rules(i) : TRUE]])
           status   == CHOOSE s \in MapBookingStatus(answer.bookingStatus) : TRUE
           names    == IF answer.confirmationNumber = {} THEN {ref} ELSE answer.confirmationNumber
<1>1. IsError(Refusal(answer)) /\ \A kind : IsError(Failed(kind))
  BY DEF IsError, Failed, Refusal
<1>2. merged = MergeCancellationPolicies(PoliciesOf(rooms))
  <2>1. [i \in DOMAIN rooms |-> [refundable |-> rooms[i].refundable, rules |-> CHOOSE r \in rules(i) : TRUE]]
           = PoliciesOf(rooms)
    BY DEF PoliciesOf
  <2> QED
    BY <2>1
<1>3. amounts = [i \in DOMAIN rooms |-> NetOf(rooms[i], currency).amount]
  OBVIOUS
<1>4. \A i \in DOMAIN rooms : rules(i) = MapCancellationPolicy(rooms[i].rows, NetOf(rooms[i], currency))
  OBVIOUS
<1>5. record = IF ~Succeeded(answer) THEN Refusal(answer)
        ELSE IF rooms = <<>> THEN Failed("supplier_rejected")
        ELSE IF \E i \in DOMAIN rooms : rooms[i].currency # currency THEN Failed("invalid_request")
        ELSE IF ~Safe(SumFunction(amounts)) \/ \E i \in DOMAIN rooms : rules(i) = {}
             THEN Failed("conversion")
        ELSE IF MapBookingStatus(answer.bookingStatus) = {} THEN Failed("invalid_request")
        ELSE IF \E k \in DOMAIN merged.rules : ~Safe(merged.rules[k].penalty)
             THEN Failed("conversion")
        ELSE [reference |-> names, status |-> status,
              net |-> [amount |-> SumFunction(amounts), currency |-> currency],
              policy |-> merged]
  BY Zenon DEF Retrieve
<1> HIDE DEF record, merged, amounts, names, rules, status, rooms, currency
<1>6. /\ \A i \in DOMAIN rooms : rooms[i].currency = currency /\ rules(i) # {}
      /\ MapBookingStatus(answer.bookingStatus) # {}
      /\ record = [reference |-> names, status |-> status,
                   net |-> [amount |-> SumFunction(amounts), currency |-> currency],
                   policy |-> merged]
  BY <1>1, <1>5, Zenon DEF record
<1>7. status = "cancelled" => answer.bookingStatus \in {"cancelled", "canceled"}
  <2> DEFINE value == answer.bookingStatus
  <2>1. value \in {"cancelled", "canceled"} \/ MapBookingStatus(value) \in {{"confirmed"}, {"pending"}, {}}
    BY DEF MapBookingStatus
  <2>2. status \in MapBookingStatus(value)
    BY <1>6 DEF status
  <2> QED
    BY <2>1, <2>2
<1>8. record.net.amount = SumFunction(amounts) /\ record.policy = merged /\ record.status = status
  BY <1>6
<1> QED
  BY <1>2, <1>3, <1>4, <1>6, <1>7, <1>8 DEF record, rooms, currency

\* retrieve and cancel, for bookings of any number of rooms and rates of any
\* number of rows: what TBO's record makes of a booking costs to cancel, at
\* every instant, what its rooms do together, and is cancelled only if TBO
\* says so.
THEOREM MergedFeesAddUp ==
    ASSUME NEW k, NEW counts, asked.kind = "detail" => Detailed(asked.answer, k, counts)
    PROVE  MergedFeeIsTheSum
<1> DEFINE answer == asked.answer
           rooms  == answer.rooms
           net(i) == NetOf(rooms[i], RateCurrency)
           record == IF asked.cancelled = {} THEN Retrieve("ref", asked.answer)
                     ELSE Cancel("ref", CHOOSE c \in asked.cancelled : TRUE, asked.answer)
           read   == Retrieve("ref", answer)
<1> SUFFICES ASSUME asked.kind = "detail", ~IsError(record)
             PROVE  /\ record.net.amount = SumFunction([i \in DOMAIN rooms |-> net(i).amount])
                    /\ record.policy.refundable = \A i \in DOMAIN rooms : rooms[i].refundable
                    /\ \A at \in Instants :
                          PenaltyFor(record.policy.rules, at)
                             = SumFunction([i \in DOMAIN rooms |-> FeeAt(rooms[i].rows, net(i), at)])
                    /\ record.status = "cancelled" => answer.bookingStatus \in {"cancelled", "canceled"}
  BY DEF MergedFeeIsTheSum
<1>1. record = read
  BY DEF Cancel, IsError, Refusal, Failed
<1>2. Detailed(answer, k, counts)
  OBVIOUS
<1>3. /\ \A i \in DOMAIN rooms :
            /\ rooms[i].currency = rooms[1].currency
            /\ MapCancellationPolicy(rooms[i].rows, NetOf(rooms[i], rooms[1].currency)) # {}
      /\ read.net.amount = SumFunction([i \in DOMAIN rooms |-> NetOf(rooms[i], rooms[1].currency).amount])
      /\ read.policy = MergeCancellationPolicies(PoliciesOf(rooms))
      /\ read.status = "cancelled" => answer.bookingStatus \in {"cancelled", "canceled"}
  <2>1. ~IsError(Retrieve("ref", answer))
    BY <1>1
  <2> HIDE DEF answer
  <2> QED
    BY <2>1, RetrievedRecord
<1> HIDE DEF record, read, answer
<1> DEFINE policies == PoliciesOf(rooms)
           S == 1..k
<1>4. /\ k \in Nat /\ DOMAIN rooms = S
      /\ \A i \in S : /\ Rated(rooms[i].rows, counts[i]) /\ rooms[i].refundable \in BOOLEAN
                      /\ rooms[i].fare.numerator \in Int /\ rooms[i].fare.denominator \in Nat \ {0}
  BY <1>2 DEF Detailed
<1>5. \A i \in S : NetOf(rooms[i], rooms[1].currency) = net(i)
  BY <1>2 DEF Detailed
<1> HIDE DEF rooms
<1>6. /\ DOMAIN policies = S
      /\ \A i \in S : /\ policies[i].refundable = rooms[i].refundable
                      /\ policies[i].rules \in MapCancellationPolicy(rooms[i].rows, net(i))
  BY <1>3, <1>4, <1>5 DEF PoliciesOf
<1>7. ASSUME NEW i \in S PROVE net(i).amount \in Int
  <2> DEFINE fare == rooms[i].fare
  <2>1. fare.numerator \in Int /\ fare.denominator \in Nat \ {0}
    BY <1>4
  <2>2. net(i).amount = TboAmountToMoney(fare, RateCurrency)
    BY DEF NetOf
  <2> HIDE DEF fare
  <2> QED
    BY <2>1, <2>2, AmountsAreWhole
<1>8. ASSUME NEW i \in S, NEW at \in Int
      PROVE  PenaltyFor(policies[i].rules, at) = FeeAt(rooms[i].rows, net(i), at)
             /\ FeeAt(rooms[i].rows, net(i), at) \in Int
  <2> DEFINE n == counts[i]
             rows == rooms[i].rows
             mine == net(i)
             policy == policies[i].rules
  <2>1. Rated(rows, n) /\ mine.amount \in Int /\ policy \in MapCancellationPolicy(rows, mine)
    BY <1>4, <1>6, <1>7
  <2> HIDE DEF n, rows, mine, policy
  <2>2. PenaltyFor(policy, at) = FeeAt(rows, mine, at) /\ FeeAt(rows, mine, at) \in Int
    BY <2>1, FeeOfThePolicy
  <2> QED
    BY <2>2 DEF n, rows, mine, policy
<1>9. Mergeable(policies, k, counts)
  <2>1. ASSUME NEW i \in S
        PROVE  Timed(policies[i].rules, counts[i]) /\ DOMAIN policies[i].rules = 1..counts[i]
    <3> DEFINE n == counts[i]
               rows == rooms[i].rows
               mine == net(i)
               policy == policies[i].rules
    <3>1. Rated(rows, n) /\ policy \in MapCancellationPolicy(rows, mine)
      BY <1>4, <1>6
    <3> HIDE DEF n, rows, mine, policy
    <3>2. n \in Nat /\ DOMAIN rows = 1..n /\ \A j \in 1..n : rows[j].fromDate \in Int
      BY <3>1 DEF Rated
    <3>3. Timed(policy, n) /\ DOMAIN policy = 1..n
      BY <3>1, <3>2, PolicyOfRows, PolicyIsAList
    <3> QED
      BY <3>3 DEF n, policy
  <2> HIDE DEF policies
  <2> QED
    BY <1>4, <1>6, <2>1 DEF Mergeable
<1> HIDE DEF policies, net
<1>10. Len(policies) = k
  BY <1>4, <1>6
<1> DEFINE merged == MergeCancellationPolicies(policies)
<1>11. merged.refundable = \A i \in S : rooms[i].refundable
  <2>1. CASE k = 1
    <3>1. merged = policies[1] /\ S = {1}
      BY <1>10, <2>1 DEF MergeCancellationPolicies
    <3>2. 1 \in S
      BY <3>1
    <3>3. merged.refundable = rooms[1].refundable /\ rooms[1].refundable \in BOOLEAN
      BY <1>4, <1>6, <3>1, <3>2
    <3>4. rooms[1].refundable = \A i \in S : rooms[i].refundable
      BY <3>1, <3>3
    <3> QED
      BY <3>3, <3>4
  <2>2. CASE k # 1
    <3>1. merged.refundable = \A p \in DOMAIN policies : policies[p].refundable
      BY <1>10, <2>2 DEF MergeCancellationPolicies
    <3>2. (\A p \in DOMAIN policies : policies[p].refundable) = \A i \in S : rooms[i].refundable
      BY <1>6
    <3> QED
      BY <3>1, <3>2
  <2> QED
    BY <2>1, <2>2
<1>12. ASSUME NEW at \in Int
       PROVE  PenaltyFor(merged.rules, at) = SumFunction([i \in S |-> FeeAt(rooms[i].rows, net(i), at)])
  <2> DEFINE f == [i \in S |-> FeeAt(rooms[i].rows, net(i), at)]
             g == [p \in DOMAIN policies |-> PenaltyFor(policies[p].rules, at)]
  <2>1. f = g
    BY <1>6, <1>8
  <2>2. CASE k = 1
    <3>1. merged = policies[1] /\ S = {1} /\ 1 \in S
      BY <1>10, <2>2 DEF MergeCancellationPolicies
    <3>2. DOMAIN f = S /\ f[1] = PenaltyFor(merged.rules, at) /\ f[1] \in Int
      BY <1>8, <3>1
    <3> HIDE DEF f
    <3>3. SumFunction(f) = SumFunctionOnSet(f, {1})
      BY <3>1, <3>2 DEF SumFunction
    <3>4. SumFunctionOnSet(f, {1}) = f[1]
      BY <3>2, SumOfOne
    <3> QED
      BY <3>2, <3>3, <3>4 DEF f
  <2>3. CASE k # 1
    <3>1. PenaltyFor(merged.rules, at) = SumFunction(g)
      BY <1>9, <1>10, <2>3, MergedFee
    <3> QED
      BY <2>1, <3>1
  <2> QED
    BY <2>2, <2>3
<1>13. [i \in DOMAIN rooms |-> NetOf(rooms[i], rooms[1].currency).amount] = [i \in DOMAIN rooms |-> net(i).amount]
  BY <1>4, <1>5
<1>14. read.policy = merged
  BY <1>3 DEF policies
<1>15. \A at \in Instants : at \in Int
  BY OffsetAssumption DEF Instants
<1> HIDE DEF merged
<1> QED
  BY <1>1, <1>3, <1>4, <1>11, <1>12, <1>13, <1>14, <1>15
-----------------------------------------------------------------------------
(* search: what becomes of a supplier's rates.                             *)

\* A rate is mapped, or its spelling counted; what cannot be converted throws.
LEMMA RoomsDiffer ==
    ASSUME NEW room, NEW currency
    PROVE  /\ ~Unmappable(room) <=> \E k \in DOMAIN Boards : Boards[k] \in Mentions[room.mealType]
           /\ Throws(room, currency) <=> ~Unmappable(room) /\ Inconvertible(room, currency)
<1> DEFINE words == Mentions[room.mealType]
           mentioned == {k \in DOMAIN Boards : Boards[k] \in words}
           net == NetOf(room, currency)
           policies == IF Safe(net.amount) THEN MapCancellationPolicy(room.rows, net) ELSE {}
<1>1. DOMAIN Boards = 1..5
  BY DEF Boards
<1>2. Unmappable(room) <=> mentioned = {}
  <2>1. ASSUME mentioned # {} PROVE NormalizeBoardBasis(room.mealType) # {}
    <3>1. PICK k \in mentioned : \A j \in mentioned : k <= j
      BY <1>1, <2>1, LeastElement
    <3> QED
      BY <3>1 DEF NormalizeBoardBasis
  <2>2. ASSUME mentioned = {} PROVE NormalizeBoardBasis(room.mealType) = {}
    BY <2>2 DEF NormalizeBoardBasis
  <2> QED
    BY <2>1, <2>2 DEF Unmappable
<1>3. policies = {} <=> Inconvertible(room, currency)
  BY Zenon DEF Inconvertible, MapCancellationPolicy
<1>4. MapRoom(room, currency) = {} <=> NormalizeBoardBasis(room.mealType) = {} \/ policies = {}
  <2>1. ASSUME NEW board \in NormalizeBoardBasis(room.mealType), NEW rules \in policies
        PROVE  [boardBasis |-> board, net |-> net, policy |-> Policy(room, rules),
                token |-> Token(room, currency, Policy(room, rules))] \in MapRoom(room, currency)
    BY DEF MapRoom
  <2>2. ASSUME NEW offer \in MapRoom(room, currency)
        PROVE  NormalizeBoardBasis(room.mealType) # {} /\ policies # {}
    BY DEF MapRoom
  <2> HIDE DEF policies
  <2> QED
    BY <2>1, <2>2
<1> QED
  BY <1>2, <1>3, <1>4 DEF Throws, Unmappable

\* The board of an offer is the most inclusive its rate's spelling names.
LEMMA BoardOfOffer ==
    ASSUME NEW room, NEW currency, NEW offer \in MapRoom(room, currency)
    PROVE  offer.boardBasis = Boards[CHOOSE k \in DOMAIN Boards :
                                        /\ Boards[k] \in Mentions[room.mealType]
                                        /\ \A j \in 1..(k - 1) : Boards[j] \notin Mentions[room.mealType]]
<1> DEFINE words == Mentions[room.mealType]
           First(k) == Boards[k] \in words /\ \A j \in 1..(k - 1) : Boards[j] \notin words
           best == CHOOSE k \in DOMAIN Boards : First(k)
<1>1. DOMAIN Boards = 1..5
  BY DEF Boards
<1>2. PICK i \in 1..5 : /\ offer.boardBasis = Boards[i] /\ Boards[i] \in words
                        /\ \A j \in 1..5 : Boards[j] \in words => i <= j
  BY <1>1, OfferOfRoom DEF NormalizeBoardBasis
<1>3. First(i)
  BY <1>2
<1>4. best \in 1..5 /\ First(best)
  BY <1>1, <1>3
<1> HIDE DEF best
<1>5. best = i
  BY <1>2, <1>4
<1> QED
  BY <1>2, <1>5 DEF best

\* The place of an element of an ordered set is how many are not after it.
LEMMA PlaceInOrder ==
    ASSUME NEW n \in Nat, NEW S, S \subseteq 1..n, NEW i \in S
    PROVE  /\ IsFiniteSet(S) /\ Cardinality({j \in S : j <= i}) \in 1..Cardinality(S)
           /\ Ascending(S)[Cardinality({j \in S : j <= i})] = i
<1> DEFINE c == Cardinality(S)
           order == Ascending(S)
           upTo == {j \in S : j <= i}
<1>1. IsFiniteSet(S) /\ S \subseteq Int
  <2>1. IsFiniteSet(1..n) /\ S \in SUBSET (1..n)
    BY IntervalSize
  <2>2. IsFiniteSet(S)
    BY <2>1, FS_Subset
  <2> QED
    BY <2>2
<1>2. /\ c \in Nat /\ order \in [1..c -> S]
      /\ \A p, q \in 1..c : p < q => order[p] < order[q]
      /\ \A s \in S : \E p \in 1..c : order[p] = s
  BY <1>1, AscendingOrders
<1> HIDE DEF c, order
<1>3. PICK p \in 1..c : order[p] = i
  BY <1>2
<1>4. \A q \in 1..c : order[q] \in S /\ order[q] \in Int
  BY <1>1, <1>2
<1>5. \A q \in 1..c : order[q] <= i <=> q <= p
  BY <1>2, <1>3, <1>4
<1> DEFINE f == [q \in 1..p |-> order[q]]
<1>6. \A q \in 1..p : q \in 1..c /\ f[q] = order[q] /\ order[q] \in upTo
  BY <1>2, <1>3, <1>4, <1>5
<1>7. f \in Injection(1..p, upTo)
  <2>1. f \in [1..p -> upTo]
    BY <1>6
  <2>2. ASSUME NEW a \in 1..p, NEW b \in 1..p, f[a] = f[b] PROVE a = b
    <3>1. order[a] = order[b] /\ a \in 1..c /\ b \in 1..c
      BY <1>6, <2>2
    <3>2. ~(order[a] < order[b]) /\ ~(order[b] < order[a])
      BY <1>4, <3>1
    <3> QED
      BY <1>2, <3>1, <3>2
  <2> QED
    BY <2>1, <2>2 DEF Injection, IsInjective
<1>8. f \in Surjection(1..p, upTo)
  <2>1. ASSUME NEW s \in upTo PROVE \E q \in 1..p : f[q] = s
    <3>1. PICK q \in 1..c : order[q] = s
      BY <1>2
    <3>2. q \in 1..p
      BY <1>5, <3>1
    <3> QED
      BY <1>6, <3>1, <3>2
  <2> QED
    BY <1>6, <2>1 DEF Surjection
<1> HIDE DEF f, upTo
<1>9. ExistsBijection(1..p, upTo)
  BY <1>7, <1>8 DEF ExistsBijection, Bijection
<1>10. Cardinality(upTo) = p
  <2>1. IsFiniteSet(1..p) /\ Cardinality(1..p) = p
    BY IntervalSize
  <2> QED
    BY <1>9, <2>1, FS_Bijection
<1> QED
  BY <1>1, <1>3, <1>10 DEF c, order, upTo

\* Counting a finite set spelling by spelling counts each of its members once.
LEMMA CountsAddUp ==
    ASSUME NEW S, IsFiniteSet(S), NEW f, DOMAIN f = S
    PROVE  SumFunction([w \in {f[i] : i \in S} |-> Cardinality({i \in S : f[i] = w})]) = Cardinality(S)
<1> DEFINE W == {f[i] : i \in S}
           counts == [w \in W |-> Cardinality({i \in S : f[i] = w})]
<1>0. W = {f[i] : i \in S} /\ counts = [w \in W |-> Cardinality({i \in S : f[i] = w})]
  OBVIOUS
<1> SUFFICES SumFunction(counts) = Cardinality(S)
  OBVIOUS
<1> HIDE DEF W, counts
<1> DEFINE Those(s) == {i \in S : f[i] \in s}
<1>1. IsFiniteSet(W)
  <2> DEFINE g == [i \in S |-> f[i]]
  <2>1. g \in [S -> W] /\ \A w \in W : \E i \in S : g[i] = w
    BY <1>0
  <2> HIDE DEF g
  <2>2. g \in Surjection(S, W)
    BY <2>1 DEF Surjection
  <2> QED
    BY <2>2, FS_Surjection
<1>2. \A s : IsFiniteSet(Those(s)) /\ Cardinality(Those(s)) \in Nat
  <2> TAKE s
  <2>1. Those(s) \in SUBSET S
    OBVIOUS
  <2> HIDE DEF Those
  <2>2. IsFiniteSet(Those(s))
    BY <2>1, FS_Subset
  <2> QED
    BY <2>2, FS_CardinalityType
<1>3. \A w \in W : counts[w] = Cardinality(Those({w})) /\ counts[w] \in Int
  <2> TAKE w \in W
  <2>1. {i \in S : f[i] = w} = Those({w})
    OBVIOUS
  <2>2. counts[w] = Cardinality(Those({w}))
    BY <1>0, <2>1
  <2> HIDE DEF Those
  <2>3. Cardinality(Those({w})) \in Nat
    BY <1>2
  <2>4. counts[w] \in Int
    BY <2>2, <2>3
  <2> QED
    BY <2>2, <2>4
<1>4. DOMAIN counts = W /\ SumFunction(counts) = SumFunctionOnSet(counts, W)
  BY <1>0 DEF SumFunction
<1> HIDE DEF Those
<1>5. PICK g : AddsUp(counts, W, g) /\ SumFunctionOnSet(counts, W) = g[W]
  <2>1. \A w \in W : counts[w] \in Int
    BY <1>3
  <2> QED
    BY <1>1, <2>1, SumAddsUp, Zenon
<1> DEFINE Good == {s \in SUBSET W : g[s] = Cardinality(Those(s))}
<1>6. {} \in Good
  <2>1. Those({}) = {} /\ Cardinality({}) = 0
    BY FS_EmptySet DEF Those
  <2> QED
    BY <1>5, <2>1 DEF AddsUp
<1>7. ASSUME NEW s \in SUBSET W, s # {}, \A x \in s : s \ {x} \in Good PROVE s \in Good
  <2>1. PICK x \in s : g[s] = counts[x] + g[s \ {x}]
    BY <1>5, <1>7 DEF AddsUp
  <2>2. g[s \ {x}] = Cardinality(Those(s \ {x})) /\ counts[x] = Cardinality(Those({x}))
    BY <1>3, <1>7
  <2>3. /\ Those(s) = Those({x}) \cup Those(s \ {x})
        /\ Those({x}) \cap Those(s \ {x}) = {}
    BY DEF Those
  <2>4. Cardinality(Those(s)) = Cardinality(Those({x})) + Cardinality(Those(s \ {x}))
    <3> DEFINE A == Those({x})
               B == Those(s \ {x})
    <3>1. /\ IsFiniteSet(A) /\ IsFiniteSet(B) /\ Those(s) = A \cup B /\ A \cap B = {}
          /\ Cardinality(A) \in Nat /\ Cardinality(B) \in Nat
      BY <1>2, <2>3
    <3> HIDE DEF A, B
    <3>2. Cardinality(A \cup B) = Cardinality(A) + Cardinality(B) - Cardinality(A \cap B)
      BY <3>1, FS_Union
    <3>3. Cardinality(A \cap B) = 0
      BY <3>1, FS_EmptySet
    <3>4. Cardinality(A \cup B) = Cardinality(A) + Cardinality(B)
      BY <3>1, <3>2, <3>3
    <3>5. Cardinality(Those(s)) = Cardinality(A) + Cardinality(B)
      BY <3>1, <3>4
    <3> QED
      BY <3>5 DEF A, B
  <2> QED
    BY <2>1, <2>2, <2>4
<1>8. \A s \in SUBSET W : s # {} /\ (\A x \in s : s \ {x} \in Good) => s \in Good
  BY <1>7
<1> HIDE DEF Good
<1>9. W \in Good
  <2>1. \A s \in SUBSET W : s \in Good
    BY <1>1, <1>6, <1>8, SubsetInduct, Zenon
  <2> QED
    BY <2>1
<1>10. Those(W) = S
  BY <1>0 DEF Those
<1> QED
  BY <1>4, <1>5, <1>9, <1>10 DEF Good

\* search, for answers of any number of rates in any currency: each rate whose
\* spelling names a board is offered in its place and under the best board
\* named, each other is counted under its spelling, and the search fails only
\* for a rate it could name and not convert.
THEOREM NoRateIsDropped ==
    ASSUME NEW n \in Nat,
           asked.kind = "search" =>
              /\ DOMAIN asked.answer.rooms = 1..n /\ Len(asked.answer.rooms) = n
              /\ \A i \in 1..n : asked.answer.rooms[i].mealType \in DOMAIN Mentions
    PROVE  NoRateVanishes
<1> DEFINE answer   == asked.answer
           rooms    == answer.rooms
           currency == answer.currency
           result   == Search(asked.target, answer)
           Named(i) == \E k \in DOMAIN Boards : Boards[k] \in Mentions[rooms[i].mealType]
           First(i) == CHOOSE k \in DOMAIN Boards :
                          /\ Boards[k] \in Mentions[rooms[i].mealType]
                          /\ \A j \in 1..(k - 1) : Boards[j] \notin Mentions[rooms[i].mealType]
           Place(i) == Cardinality({j \in 1..i : Named(j)})
<1> SUFFICES ASSUME asked.kind = "search", Succeeded(answer), asked.target = Property("tbo")
             PROVE  /\ IsError(result) <=> \E i \in DOMAIN rooms :
                                              Named(i) /\ Inconvertible(rooms[i], currency)
                    /\ ~IsError(result) =>
                          /\ Len(result.offers) + SumFunction(result.skipped) = Len(rooms)
                          /\ \A i \in DOMAIN rooms : Named(i) =>
                                result.offers[Place(i)].boardBasis = Boards[First(i)]
                          /\ \A spelling \in DOMAIN result.skipped : Mentions[spelling] = {}
  BY DEF NoRateVanishes
<1> DEFINE S    == {i \in 1..n : ~Unmappable(rooms[i])}
           U    == {i \in 1..n : Unmappable(rooms[i])}
           kept == Ascending(S)
           c    == Cardinality(S)
           walked == RoomsMapped(rooms, currency)
           Offer(i) == CHOOSE offer \in MapRoom(rooms[i], currency) : TRUE
           spellings == {rooms[i].mealType : i \in U}
           skipped == [w \in spellings |-> Cardinality({i \in U : rooms[i].mealType = w})]
<1>1. /\ DOMAIN rooms = 1..n /\ Len(rooms) = n
      /\ \A i \in 1..n : rooms[i].mealType \in DOMAIN Mentions
  OBVIOUS
<1>2. \A i \in 1..n : /\ ~Unmappable(rooms[i]) <=> Named(i)
                      /\ Throws(rooms[i], currency) <=> Named(i) /\ Inconvertible(rooms[i], currency)
  BY RoomsDiffer
<1>3. SkippedOf(rooms) = skipped
  BY <1>1 DEF SkippedOf
<1>4. result = IF walked # 1..n THEN Failed("conversion")
               ELSE [offers |-> [k \in DOMAIN kept |-> Offer(kept[k])], skipped |-> skipped]
  <2>1. Searchable(asked.target)
    BY DEF Searchable, Property
  <2>2. ~(HttpOk(answer) /\ answer.parses /\ answer.status = 201)
    BY DEF Succeeded
  <2> QED
    BY <1>1, <1>3, <2>1, <2>2 DEF Search
<1>5. walked = 1..n <=> \A i \in 1..n : ~Throws(rooms[i], currency)
  <2> DEFINE broken == {i \in 1..n : Throws(rooms[i], currency)}
  <2>1. walked = {i \in 1..n : \A j \in broken : i < j}
    BY <1>1 DEF RoomsMapped
  <2>2. \A j \in broken : j \in 1..n /\ ~(j < j)
    OBVIOUS
  <2>3. broken = {} <=> \A i \in 1..n : ~Throws(rooms[i], currency)
    OBVIOUS
  <2> HIDE DEF broken, walked
  <2> QED
    BY <2>1, <2>2, <2>3
<1> HIDE DEF answer, rooms, currency, result, walked, Offer, skipped
<1>6. IsError(result) <=> walked # 1..n
  BY <1>4 DEF IsError, Failed
<1>7. IsError(result) <=> \E i \in DOMAIN rooms : Named(i) /\ Inconvertible(rooms[i], currency)
  BY <1>1, <1>2, <1>5, <1>6
<1>8. ASSUME ~IsError(result)
      PROVE  /\ Len(result.offers) + SumFunction(result.skipped) = Len(rooms)
             /\ \A i \in DOMAIN rooms : Named(i) =>
                   result.offers[Place(i)].boardBasis = Boards[First(i)]
             /\ \A spelling \in DOMAIN result.skipped : Mentions[spelling] = {}
  <2>1. IsFiniteSet(1..n) /\ Cardinality(1..n) = n
    BY IntervalSize
  <2>2. IsFiniteSet(S) /\ IsFiniteSet(U) /\ S \subseteq 1..n
    <3>1. S \in SUBSET (1..n) /\ U \in SUBSET (1..n)
      OBVIOUS
    <3> HIDE DEF S, U
    <3> QED
      BY <2>1, <3>1, FS_Subset
  <2>3. c + Cardinality(U) = n
    <3>1. S \cup U = 1..n /\ S \cap U = {}
      OBVIOUS
    <3> HIDE DEF S, U
    <3>2. Cardinality(S \cup U) = Cardinality(S) + Cardinality(U) - Cardinality(S \cap U)
      BY <2>2, FS_Union
    <3>3. Cardinality(S) \in Nat /\ Cardinality(U) \in Nat /\ Cardinality(S \cap U) = 0
      BY <2>2, <3>1, FS_CardinalityType, FS_EmptySet
    <3>4. Cardinality(S \cup U) = n
      BY <2>1, <3>1
    <3> QED
      BY <3>2, <3>3, <3>4
  <2>4. /\ result.offers = [k \in DOMAIN kept |-> Offer(kept[k])]
        /\ result.skipped = skipped
    BY <1>4, <1>6, <1>8
  <2>5. c \in Nat /\ kept \in [1..c -> S]
    <3> HIDE DEF S
    <3>1. S \subseteq Int
      BY <2>2
    <3> QED
      BY <2>2, <3>1, AscendingOrders
  <2>6. Len(result.offers) + SumFunction(result.skipped) = Len(rooms)
    <3>1. Len(result.offers) = c
      <4> HIDE DEF kept, c, S
      <4>1. DOMAIN kept = 1..c
        BY <2>5
      <4> QED
        BY <2>4, <2>5, <4>1
    <3>2. SumFunction(skipped) = Cardinality(U)
      <4> DEFINE f == [i \in U |-> rooms[i].mealType]
      <4>1. /\ DOMAIN f = U /\ spellings = {f[i] : i \in U}
            /\ skipped = [w \in spellings |-> Cardinality({i \in U : f[i] = w})]
        BY DEF skipped
      <4> HIDE DEF f, spellings, U
      <4>2. IsFiniteSet(U)
        BY <2>2
      <4>3. SumFunction([w \in {f[i] : i \in U} |-> Cardinality({i \in U : f[i] = w})]) = Cardinality(U)
        BY <4>1, <4>2, CountsAddUp
      <4>4. skipped = [w \in {f[i] : i \in U} |-> Cardinality({i \in U : f[i] = w})]
        BY <4>1, Zenon
      <4> QED
        BY <4>3, <4>4, Zenon
    <3> QED
      BY <1>1, <2>3, <2>4, <3>1, <3>2
  <2>7. ASSUME NEW i \in 1..n, Named(i)
        PROVE  result.offers[Place(i)].boardBasis = Boards[First(i)]
    <3>1. i \in S
      BY <1>2, <2>7
    <3>2. {j \in 1..i : Named(j)} = {j \in S : j <= i}
      BY <1>2
    <3>3. Place(i) \in 1..c /\ kept[Place(i)] = i
      <4> HIDE DEF S
      <4>1. /\ Cardinality({j \in S : j <= i}) \in 1..Cardinality(S)
            /\ Ascending(S)[Cardinality({j \in S : j <= i})] = i
        BY <2>2, <3>1, PlaceInOrder
      <4> QED
        BY <3>2, <4>1
    <3> HIDE DEF Place, kept, c
    <3>4. result.offers[Place(i)] = Offer(i)
      BY <2>4, <2>5, <3>3
    <3>5. Offer(i) \in MapRoom(rooms[i], currency)
      <4>1. ~Throws(rooms[i], currency) /\ ~Unmappable(rooms[i])
        BY <1>5, <1>6, <1>8, <3>1
      <4>2. MapRoom(rooms[i], currency) # {}
        BY <4>1 DEF Throws
      <4> QED
        BY <4>2 DEF Offer
    <3> DEFINE room == rooms[i]
               offer == Offer(i)
    <3>6. offer \in MapRoom(room, currency)
      BY <3>5
    <3> HIDE DEF offer, room
    <3>7. offer.boardBasis = Boards[CHOOSE k \in DOMAIN Boards :
                                /\ Boards[k] \in Mentions[room.mealType]
                                /\ \A j \in 1..(k - 1) : Boards[j] \notin Mentions[room.mealType]]
      BY <3>6, BoardOfOffer
    <3> QED
      BY <3>4, <3>7 DEF offer, room
  <2>8. ASSUME NEW spelling \in DOMAIN result.skipped PROVE Mentions[spelling] = {}
    <3>1. spelling \in spellings
      BY <2>4, <2>8 DEF skipped
    <3>2. PICK i \in U : spelling = rooms[i].mealType
      BY <3>1
    <3>3. \A k \in DOMAIN Boards : Boards[k] \notin Mentions[spelling]
      BY <1>2, <3>2
    <3>4. Mentions[spelling] \subseteq {Boards[k] : k \in DOMAIN Boards}
      <4>1. spelling \in DOMAIN Mentions
        BY <1>1, <3>2
      <4> QED
        BY <4>1, MentionsAssumption DEF Range
    <3> QED
      BY <3>3, <3>4
  <2> QED
    BY <1>1, <2>6, <2>7, <2>8
<1> QED
  BY <1>7, <1>8 DEF rooms

-----------------------------------------------------------------------------
(* The signed row of an offer.                                             *)
OfferColumns ==
    {"id", "net", "sell", "policySnapshot", "expiresAt", "supplierOfferToken", "canonicalPropertyId",
     "nationality", "occupancy", "breakdown", "pricingContext", "checkedAt", "currency", "priceHash",
     "invalidatedAt"}

\* What buildRecord makes of an offer, if it does not throw.
Made(record, key, tenant, id, input, checked, at) ==
    /\ DOMAIN record = OfferColumns /\ record = [column \in OfferColumns |-> record[column]]
    /\ record.id = id /\ record.net = input.offer.net /\ record.sell = input.offer.sell
    /\ record.policySnapshot = input.offer.policySnapshot
    /\ record.expiresAt = input.offer.expiresAt
    /\ record.supplierOfferToken = input.supplierOfferToken
    /\ record.canonicalPropertyId = input.canonicalPropertyId
    /\ record.nationality = input.nationality /\ record.occupancy = input.occupancy
    /\ record.breakdown = input.offer.breakdown /\ record.pricingContext = input.pricingContext
    /\ record.checkedAt = checked /\ record.currency = input.offer.currency
    /\ record.invalidatedAt = Unset
    /\ record.priceHash = [key |-> key, claims |-> ClaimsOf(tenant, record), encoding |-> "canonical"]
    /\ CanonicalOfferClaims(ClaimsOf(tenant, record)) = {ClaimsOf(tenant, record)}
    /\ ValidMoney(input.offer.net) /\ ValidMoney(input.offer.sell)
    /\ input.offer.net.currency = input.offer.currency
    /\ input.offer.sell.currency = input.offer.currency
    /\ input.offer.expiresAt - at \in 1..MaxOfferTtlSeconds

LEMMA RecordOfOffer ==
    ASSUME NEW key, NEW tenant, NEW id, NEW input, NEW checked, NEW at,
           NEW record \in BuildRecord(key, tenant, id, input, checked, at)
    PROVE  Made(record, key, tenant, id, input, checked, at)
<1> DEFINE offer == input.offer
           plain == [id |-> id, net |-> offer.net, sell |-> offer.sell,
                     policySnapshot |-> offer.policySnapshot, expiresAt |-> offer.expiresAt,
                     supplierOfferToken |-> input.supplierOfferToken,
                     canonicalPropertyId |-> input.canonicalPropertyId,
                     nationality |-> input.nationality, occupancy |-> input.occupancy,
                     breakdown |-> offer.breakdown, pricingContext |-> input.pricingContext,
                     checkedAt |-> checked, currency |-> offer.currency, priceHash |-> Unset,
                     invalidatedAt |-> Unset]
           claims == ClaimsOf(tenant, plain)
<1>1. /\ ValidMoney(offer.net) /\ ValidMoney(offer.sell)
      /\ offer.net.currency = offer.currency /\ offer.sell.currency = offer.currency
      /\ offer.expiresAt - at \in 1..MaxOfferTtlSeconds
      /\ \E signature \in SignOfferClaims(key, claims) : record = [plain EXCEPT !.priceHash = signature]
  BY DEF BuildRecord
<1>2. PICK signature \in SignOfferClaims(key, claims) : record = [plain EXCEPT !.priceHash = signature]
  BY <1>1
<1>3. /\ CanonicalOfferClaims(claims) = {claims}
      /\ signature = [key |-> key, claims |-> claims, encoding |-> "canonical"]
  BY DEF SignOfferClaims, CanonicalOfferClaims
<1>4. /\ record.id = id /\ record.net = offer.net /\ record.sell = offer.sell
      /\ record.policySnapshot = offer.policySnapshot /\ record.expiresAt = offer.expiresAt
      /\ record.supplierOfferToken = input.supplierOfferToken
      /\ record.canonicalPropertyId = input.canonicalPropertyId
      /\ record.nationality = input.nationality /\ record.occupancy = input.occupancy
      /\ record.breakdown = offer.breakdown /\ record.pricingContext = input.pricingContext
      /\ record.checkedAt = checked /\ record.currency = offer.currency
      /\ record.invalidatedAt = Unset /\ record.priceHash = signature
  BY <1>2
<1>5. claims = ClaimsOf(tenant, record)
  BY <1>4 DEF ClaimsOf
<1>6. DOMAIN record = OfferColumns /\ record = [column \in OfferColumns |-> record[column]]
  BY <1>2 DEF OfferColumns
<1> QED
  BY <1>1, <1>3, <1>4, <1>5, <1>6 DEF Made

\* A row as toStoredOffer reads it.
Read(row) ==
    [row EXCEPT !.net  = [amount |-> @, currency |-> row.currency],
                !.sell = [amount |-> @, currency |-> row.currency]]

\* What is read of a row.
LEMMA RowRead ==
    ASSUME NEW row, row = [column \in OfferColumns |-> row[column]]
    PROVE  /\ DOMAIN Read(row) = OfferColumns
           /\ Read(row).net = [amount |-> row.net, currency |-> row.currency]
           /\ Read(row).sell = [amount |-> row.sell, currency |-> row.currency]
           /\ Read(row).id = row.id /\ Read(row).expiresAt = row.expiresAt
           /\ Read(row).policySnapshot = row.policySnapshot /\ Read(row).breakdown = row.breakdown
           /\ Read(row).supplierOfferToken = row.supplierOfferToken
           /\ Read(row).canonicalPropertyId = row.canonicalPropertyId
           /\ Read(row).nationality = row.nationality /\ Read(row).occupancy = row.occupancy
           /\ Read(row).pricingContext = row.pricingContext /\ Read(row).checkedAt = row.checkedAt
           /\ Read(row).currency = row.currency /\ Read(row).priceHash = row.priceHash
           /\ Read(row).invalidatedAt = row.invalidatedAt
           /\ Read(row) = [column \in OfferColumns |-> Read(row)[column]]
           /\ ~IsRefused(Read(row))
BY DEF Read, OfferColumns, IsRefused

InScope(row, scopes) == \A scope \in scopes : row.pricingContext.scope["agencyId"] = scope

Verified(row, key, tenant, token, scopes, at) ==
    IF token = Unset \/ row.id # token.offerId THEN Refused("offer_not_found")
    ELSE IF ~(Safe(row.net) /\ Safe(row.sell)) THEN Refused("internal")
    ELSE IF ~VerifyRow(key, tenant, Read(row), token.signature) \/ ~InScope(row, scopes)
    THEN Refused("offer_not_found")
    ELSE IF row.invalidatedAt # Unset THEN Refused("offer_invalidated")
    ELSE IF at >= row.expiresAt THEN Refused("offer_expired")
    ELSE Read(row)

\* verifyOfferToken, in a database where no other row has the id.
LEMMA VerifyAmong ==
    ASSUME NEW rows, NEW row \in rows, row = [column \in OfferColumns |-> row[column]],
           NEW key, NEW tenant, NEW token, NEW scopes, NEW at,
           \A r \in rows : r = row \/ token = Unset \/ r.id # token.offerId
    PROVE  VerifyOfferToken(key, tenant, rows, token, scopes, at)
              = Verified(row, key, tenant, token, scopes, at)
<1> DEFINE found == {r \in rows : token # Unset /\ r.id = token.offerId}
           read == CHOOSE stored \in UNION {ToStoredOffer(r) : r \in found} : TRUE
           loads == Safe(row.net) /\ Safe(row.sell)
           verified == VerifyOfferToken(key, tenant, rows, token, scopes, at)
<1>1. verified =
         CASE found = {} -> Refused("offer_not_found")
           [] found # {} /\ \A r \in found : ToStoredOffer(r) = {} -> Refused("internal")
           [] OTHER ->
              IF \/ ~VerifyRow(key, tenant, read, token.signature)
                 \/ \E scope \in scopes : read.pricingContext.scope["agencyId"] # scope
              THEN Refused("offer_not_found")
              ELSE IF read.invalidatedAt # Unset THEN Refused("offer_invalidated")
              ELSE IF at >= read.expiresAt THEN Refused("offer_expired")
              ELSE read
  BY Zenon DEF VerifyOfferToken
<1>2. ToStoredOffer(row) = IF loads THEN {Read(row)} ELSE {}
  BY DEF ToStoredOffer, Read
<1>3. found = IF token = Unset \/ row.id # token.offerId THEN {} ELSE {row}
  OBVIOUS
<1> HIDE DEF read, loads, verified, found
<1>4. CASE token = Unset \/ row.id # token.offerId
  BY <1>1, <1>3, <1>4 DEF verified, Verified
<1>5. CASE ~(token = Unset \/ row.id # token.offerId) /\ ~loads
  <2>1. found # {} /\ \A r \in found : ToStoredOffer(r) = {}
    BY <1>2, <1>3, <1>5
  <2> QED
    BY <1>1, <1>5, <2>1 DEF verified, loads, Verified
<1>6. CASE ~(token = Unset \/ row.id # token.offerId) /\ loads
  <2>1. found = {row}
    BY <1>3, <1>6
  <2>2. UNION {ToStoredOffer(r) : r \in found} = {Read(row)}
    BY <1>2, <1>6, <2>1
  <2>3. read = Read(row)
    BY <2>2 DEF read
  <2>4. found # {} /\ ~(\A r \in found : ToStoredOffer(r) = {})
    BY <1>2, <1>6, <2>1
  <2>5. /\ read.pricingContext = row.pricingContext /\ read.invalidatedAt = row.invalidatedAt
        /\ read.expiresAt = row.expiresAt
    BY <2>3, RowRead
  <2>6. verified =
           IF \/ ~VerifyRow(key, tenant, read, token.signature)
              \/ \E scope \in scopes : read.pricingContext.scope["agencyId"] # scope
           THEN Refused("offer_not_found")
           ELSE IF read.invalidatedAt # Unset THEN Refused("offer_invalidated")
           ELSE IF at >= read.expiresAt THEN Refused("offer_expired")
           ELSE read
    BY <1>1, <2>4
  <2>7. (\E scope \in scopes : read.pricingContext.scope["agencyId"] # scope) <=> ~InScope(row, scopes)
    BY <2>5 DEF InScope
  <2> QED
    BY <1>6, <2>3, <2>5, <2>6, <2>7 DEF verified, loads, Verified
<1> QED
  BY <1>4, <1>5, <1>6

\* The row says of the price what it said when it was signed, and is whole.
Intact(row, issued) ==
    /\ row.id = issued.id /\ row.net = issued.net /\ row.sell = issued.sell
    /\ row.currency = issued.currency /\ row.supplierOfferToken = issued.supplierOfferToken
    /\ row.expiresAt = issued.expiresAt /\ row.priceHash = issued.priceHash
    /\ \A column \in OfferStoreColumns : row[column] # Unset

LEMMA IntactColumns ==
    ASSUME NEW row, NEW issued
    PROVE  Intact(row, issued) <=> /\ \A column \in SignedColumns : row[column] = issued[column]
                                   /\ \A column \in OfferStoreColumns : row[column] # Unset
<1>1. (\A column \in SignedColumns : row[column] = issued[column])
         <=> /\ row.id = issued.id /\ row.net = issued.net /\ row.sell = issued.sell
             /\ row.currency = issued.currency /\ row.supplierOfferToken = issued.supplierOfferToken
             /\ row.expiresAt = issued.expiresAt /\ row.priceHash = issued.priceHash
  BY DEF SignedColumns
<1> QED
  BY <1>1 DEF Intact

\* A record as issueOffer writes it, at most one currency in it.
Issuable(record, tenant) ==
    /\ record = [column \in OfferColumns |-> record[column]]
    /\ record.net = [amount |-> record.net.amount, currency |-> record.currency]
    /\ record.sell = [amount |-> record.sell.amount, currency |-> record.currency]
    /\ Safe(record.net.amount) /\ Safe(record.sell.amount)
    /\ record.priceHash = [key |-> record.priceHash.key, claims |-> ClaimsOf(tenant, record), encoding |-> "canonical"]
    /\ CanonicalOfferClaims(ClaimsOf(tenant, record)) = {ClaimsOf(tenant, record)}

\* verifyRow accepts a row with the claims that were signed and no other.
LEMMA OnlyWhatWasSigned ==
    ASSUME NEW record, NEW tenant, Issuable(record, tenant),
           NEW row, row = [column \in OfferColumns |-> row[column]], row.id = record.id,
           NEW key, NEW theirs, NEW encoding
    PROVE  VerifyRow(key, theirs, Read(row), [record.priceHash EXCEPT !.encoding = encoding])
              <=> /\ Intact(row, ToInsertRow(record))
                  /\ key = record.priceHash.key /\ theirs = tenant /\ encoding = "canonical"
<1> DEFINE issued == ToInsertRow(record)
           hash == record.priceHash
           signature == [hash EXCEPT !.encoding = encoding]
           read == Read(row)
           mine == ClaimsOf(tenant, record)
           claims == ClaimsOf(theirs, read)
<1>1. /\ issued.id = record.id /\ issued.net = record.net.amount /\ issued.sell = record.sell.amount
      /\ issued.currency = record.sell.currency /\ issued.supplierOfferToken = record.supplierOfferToken
      /\ issued.expiresAt = record.expiresAt /\ issued.priceHash = record.priceHash
  BY DEF ToInsertRow, Issuable, OfferColumns
<1>2. /\ read.net = [amount |-> row.net, currency |-> row.currency]
      /\ read.sell = [amount |-> row.sell, currency |-> row.currency]
      /\ read.id = row.id /\ read.expiresAt = row.expiresAt
      /\ read.supplierOfferToken = row.supplierOfferToken /\ read.priceHash = row.priceHash
  BY RowRead
<1>3. /\ hash = [key |-> hash.key, claims |-> mine, encoding |-> "canonical"]
      /\ signature = [key |-> hash.key, claims |-> mine, encoding |-> encoding]
  BY DEF Issuable
<1>4. (\A column \in OfferStoreColumns : read[column] # Unset)
         <=> \A column \in OfferStoreColumns : row[column] # Unset
  <2>1. /\ read.supplierOfferToken = row.supplierOfferToken
        /\ read.canonicalPropertyId = row.canonicalPropertyId /\ read.nationality = row.nationality
        /\ read.occupancy = row.occupancy /\ read.breakdown = row.breakdown
        /\ read.pricingContext = row.pricingContext
    BY RowRead
  <2> HIDE DEF read
  <2> QED
    BY <2>1 DEF OfferStoreColumns
<1>5. VerifyRow(key, theirs, read, signature)
         <=> /\ \A column \in OfferStoreColumns : row[column] # Unset
             /\ signature \in SignOfferClaims(key, claims)
             /\ row.priceHash = signature
  BY <1>2, <1>4 DEF VerifyRow, VerifyOfferClaims
<1>6. /\ mine = [tenantId |-> tenant, offerId |-> record.id, sell |-> record.sell, net |-> record.net,
                 supplierOfferToken |-> record.supplierOfferToken, expiresAt |-> record.expiresAt]
      /\ claims = [tenantId |-> theirs, offerId |-> row.id,
                   sell |-> [amount |-> row.sell, currency |-> row.currency],
                   net |-> [amount |-> row.net, currency |-> row.currency],
                   supplierOfferToken |-> row.supplierOfferToken, expiresAt |-> row.expiresAt]
  BY <1>2 DEF ClaimsOf
<1>7. claims = mine
         <=> /\ theirs = tenant /\ row.net = issued.net /\ row.sell = issued.sell
             /\ row.currency = issued.currency
             /\ row.supplierOfferToken = issued.supplierOfferToken /\ row.expiresAt = issued.expiresAt
  BY <1>1, <1>6 DEF Issuable
<1> HIDE DEF mine, claims
<1>8. signature \in SignOfferClaims(key, claims)
         <=> key = hash.key /\ claims = mine /\ encoding = "canonical"
  <2>1. ASSUME signature \in SignOfferClaims(key, claims)
        PROVE  key = hash.key /\ claims = mine /\ encoding = "canonical"
    <3>1. signature = [key |-> key, claims |-> claims, encoding |-> "canonical"]
      BY <2>1 DEF SignOfferClaims, CanonicalOfferClaims
    <3> QED
      BY <1>3, <3>1
  <2>2. ASSUME key = hash.key, claims = mine, encoding = "canonical"
        PROVE  signature \in SignOfferClaims(key, claims)
    <3>1. CanonicalOfferClaims(claims) = {claims}
      BY <2>2 DEF Issuable, mine
    <3> QED
      BY <1>3, <2>2, <3>1 DEF SignOfferClaims
  <2> QED
    BY <2>1, <2>2
<1>9. encoding = "canonical" => signature = hash
  BY <1>3
<1> HIDE DEF signature, issued, read, hash
<1>10. Intact(row, issued)
         <=> /\ row.net = issued.net /\ row.sell = issued.sell
             /\ row.currency = issued.currency /\ row.supplierOfferToken = issued.supplierOfferToken
             /\ row.expiresAt = issued.expiresAt /\ row.priceHash = hash
             /\ \A column \in OfferStoreColumns : row[column] # Unset
  BY <1>1 DEF Intact, hash
<1>11. VerifyRow(key, theirs, read, signature)
         <=> Intact(row, issued) /\ key = hash.key /\ theirs = tenant /\ encoding = "canonical"
  BY <1>5, <1>7, <1>8, <1>9, <1>10
<1> QED
  BY <1>11 DEF signature, issued, read, hash

\* What issueOffer wrote can be verified.
LEMMA BuiltIsIssuable ==
    ASSUME NEW key, NEW tenant, NEW id, NEW input, NEW checked, NEW at,
           input.offer.net = [amount |-> input.offer.net.amount, currency |-> input.offer.net.currency],
           input.offer.sell = [amount |-> input.offer.sell.amount, currency |-> input.offer.sell.currency],
           NEW record \in BuildRecord(key, tenant, id, input, checked, at)
    PROVE  Issuable(record, tenant) /\ record.priceHash.key = key
<1> DEFINE money == input.offer
<1>1. /\ record = [column \in OfferColumns |-> record[column]]
      /\ record.net = money.net /\ record.sell = money.sell /\ record.currency = money.currency
      /\ record.priceHash = [key |-> key, claims |-> ClaimsOf(tenant, record), encoding |-> "canonical"]
      /\ CanonicalOfferClaims(ClaimsOf(tenant, record)) = {ClaimsOf(tenant, record)}
      /\ ValidMoney(money.net) /\ ValidMoney(money.sell)
      /\ money.net.currency = money.currency /\ money.sell.currency = money.currency
  BY RecordOfOffer DEF Made
<1>2. record.priceHash.key = key
  BY <1>1
<1> QED
  BY <1>1, <1>2 DEF Issuable, ValidMoney

\* A token presented: amounts are of a currency, null is no token, and no row
\* was checked after the instant of the request.
Presentable(question) ==
    /\ question.input.offer.net =
          [amount |-> question.input.offer.net.amount, currency |-> question.input.offer.net.currency]
    /\ question.input.offer.sell =
          [amount |-> question.input.offer.sell.amount, currency |-> question.input.offer.sell.currency]
    /\ question.input.offer.expiresAt \in Int /\ question.now \in Int
    /\ \A id, signature : Unset # [offerId |-> id, signature |-> signature]
    /\ \A record \in BuildRecord("key", "tenant", "o1", question.input, question.checkedAt, Issued) :
          LET checkedAt == Damaged(ToInsertRow(record), question.damage).checkedAt
          IN  checkedAt # Unset => checkedAt \in Int /\ checkedAt <= question.now

\* verifyOfferToken and requireBookableOffer, for whatever was offered, became
\* of the row and is presented: only a token of a row that is as it was signed,
\* with the key, the tenant and the spelling it was signed with, is honoured,
\* and all it tells is what was signed; any other is not found, if the amounts
\* of its row can be read.
THEOREM TokensVouch ==
    ASSUME asked.kind = "token" => Presentable(asked)
    PROVE  TokenVouchesForThePrice
<1> DEFINE caller == asked.presenter
           input  == asked.input
<1> SUFFICES ASSUME asked.kind = "token",
                    NEW record \in Offered
             PROVE  LET row      == RowNow(record)
                        verified == Verdict(record)
                        bookable == RequireBookableOffer(verified, asked.now)
                        genuine  == Genuine(record)
                    IN  /\ record.expiresAt <= Issued + MaxOfferTtlSeconds
                        /\ ~genuine => IsRefused(verified)
                        /\ ~genuine /\ Safe(row.net) /\ Safe(row.sell) => verified = Refused("offer_not_found")
                        /\ genuine /\ (row.invalidatedAt # Unset \/ asked.now >= record.expiresAt) =>
                              IsRefused(verified) /\ OfferHttpStatus(verified.error) = 410
                        /\ genuine /\ row.invalidatedAt = Unset /\ asked.now < record.expiresAt =>
                              /\ verified.net = input.offer.net /\ verified.sell = input.offer.sell
                              /\ verified.expiresAt = input.offer.expiresAt
                              /\ verified.supplierOfferToken = input.supplierOfferToken
                        /\ ~IsRefused(bookable) =>
                              genuine /\ bookable.checkedAt \in (asked.now - BookableWindowSeconds)..asked.now
  BY DEF TokenVouchesForThePrice
<1> DEFINE issued == ToInsertRow(record)
           row    == Damaged(issued, asked.damage)
           minted == TokenFor(record)
           spelt  == [minted EXCEPT !.signature.encoding = caller.encoding]
           token  == IF ~asked.parses THEN Unset ELSE spelt
           at     == asked.now
           verified == VerifyOfferToken(caller.key, caller.tenant, {row}, token, caller.scopes, at)
           bookable == RequireBookableOffer(verified, at)
           inScope  == InScope(row, caller.scopes)
           genuine  == /\ asked.parses
                       /\ \A column \in SignedColumns : row[column] = issued[column]
                       /\ \A column \in OfferStoreColumns : row[column] # Unset
                       /\ caller.key = "key" /\ caller.tenant = "tenant" /\ caller.encoding = "canonical"
                       /\ inScope
<1>1. Presentable(asked)
  OBVIOUS
<1>2. /\ input.offer.net = [amount |-> input.offer.net.amount, currency |-> input.offer.net.currency]
      /\ input.offer.sell = [amount |-> input.offer.sell.amount, currency |-> input.offer.sell.currency]
      /\ input.offer.expiresAt \in Int /\ at \in Int
      /\ \A id, signature : Unset # [offerId |-> id, signature |-> signature]
      /\ row.checkedAt # Unset => row.checkedAt \in Int /\ row.checkedAt <= at
  BY <1>1 DEF Presentable, Offered
<1>0. record \in BuildRecord("key", "tenant", "o1", input, asked.checkedAt, Issued)
  BY DEF Offered
<1> HIDE DEF input, at, caller
<1>3. Issuable(record, "tenant") /\ record.priceHash.key = "key"
  BY <1>0, <1>2, BuiltIsIssuable
<1>4. /\ record.id = "o1" /\ record.net = input.offer.net /\ record.sell = input.offer.sell
      /\ record.expiresAt = input.offer.expiresAt
      /\ record.supplierOfferToken = input.supplierOfferToken
      /\ input.offer.expiresAt - Issued \in 1..MaxOfferTtlSeconds
  <2> DEFINE before == asked.checkedAt
             from == Issued
  <2>1. record \in BuildRecord("key", "tenant", "o1", input, before, from)
    BY <1>0
  <2> HIDE DEF before, from
  <2>2. Made(record, "key", "tenant", "o1", input, before, from)
    BY <2>1, RecordOfOffer
  <2> QED
    BY <2>2 DEF Made, from
<1>5. record.expiresAt <= Issued + MaxOfferTtlSeconds
  BY <1>2, <1>4, OfferTtlAssumption DEF Issued
<1>6. /\ DOMAIN issued = OfferColumns
      /\ issued.id = record.id /\ issued.net = record.net.amount /\ issued.sell = record.sell.amount
      /\ issued.currency = record.sell.currency /\ issued.supplierOfferToken = record.supplierOfferToken
      /\ issued.expiresAt = record.expiresAt
  BY <1>3 DEF ToInsertRow, Issuable, OfferColumns
<1> HIDE DEF issued
<1>7. row = [column \in OfferColumns |-> row[column]]
  BY <1>6 DEF Damaged
<1>8. /\ spelt.offerId = record.id
      /\ spelt.signature = [record.priceHash EXCEPT !.encoding = caller.encoding]
      /\ spelt # Unset
  <2>1. spelt = [offerId |-> record.id, signature |-> [record.priceHash EXCEPT !.encoding = caller.encoding]]
    BY DEF TokenFor
  <2> HIDE DEF spelt
  <2> QED
    BY <1>2, <2>1
<1> HIDE DEF row, spelt
<1>9. verified =
         IF token = Unset \/ row.id # token.offerId THEN Refused("offer_not_found")
         ELSE IF ~(Safe(row.net) /\ Safe(row.sell)) THEN Refused("internal")
         ELSE IF ~VerifyRow(caller.key, caller.tenant, Read(row), token.signature) \/ ~inScope
         THEN Refused("offer_not_found")
         ELSE IF row.invalidatedAt # Unset THEN Refused("offer_invalidated")
         ELSE IF at >= row.expiresAt THEN Refused("offer_expired")
         ELSE Read(row)
  <2> DEFINE key == caller.key
             theirs == caller.tenant
             scopes == caller.scopes
  <2> HIDE DEF key, theirs, scopes, token
  <2>1. VerifyOfferToken(key, theirs, {row}, token, scopes, at) = Verified(row, key, theirs, token, scopes, at)
    <3> DEFINE rows == {row}
    <3>1. row \in rows /\ \A r \in rows : r = row
      OBVIOUS
    <3> HIDE DEF rows
    <3>2. VerifyOfferToken(key, theirs, rows, token, scopes, at) = Verified(row, key, theirs, token, scopes, at)
      BY <1>7, <3>1, VerifyAmong
    <3> QED
      BY <3>2 DEF rows
  <2> QED
    BY <2>1 DEF key, theirs, scopes, Verified
<1> HIDE DEF verified, inScope
<1>10. genuine <=> /\ asked.parses /\ Intact(row, issued)
                   /\ caller.key = "key" /\ caller.tenant = "tenant" /\ caller.encoding = "canonical"
                   /\ inScope
  BY IntactColumns
<1> HIDE DEF genuine
<1>11. asked.parses /\ row.id = record.id =>
          (VerifyRow(caller.key, caller.tenant, Read(row), token.signature)
              <=> /\ Intact(row, issued)
                  /\ caller.key = "key" /\ caller.tenant = "tenant" /\ caller.encoding = "canonical")
  <2> SUFFICES ASSUME asked.parses, row.id = record.id
               PROVE  VerifyRow(caller.key, caller.tenant, Read(row), token.signature)
                         <=> /\ Intact(row, issued)
                             /\ caller.key = "key" /\ caller.tenant = "tenant" /\ caller.encoding = "canonical"
    OBVIOUS
  <2> DEFINE key == caller.key
             theirs == caller.tenant
             encoding == caller.encoding
  <2>1. token.signature = [record.priceHash EXCEPT !.encoding = encoding]
    BY <1>8
  <2> HIDE DEF token, key, theirs, encoding
  <2>2. VerifyRow(key, theirs, Read(row), [record.priceHash EXCEPT !.encoding = encoding])
           <=> /\ Intact(row, ToInsertRow(record))
               /\ key = record.priceHash.key /\ theirs = "tenant" /\ encoding = "canonical"
    BY <1>3, <1>7, OnlyWhatWasSigned
  <2> QED
    BY <1>3, <2>1, <2>2 DEF key, theirs, encoding, issued
<1>12. Intact(row, issued) => /\ row.id = record.id /\ Safe(row.net) /\ Safe(row.sell)
                              /\ row.expiresAt = record.expiresAt
  BY <1>3, <1>6 DEF Intact, Issuable
<1>13. /\ OfferHttpStatus("offer_not_found") = 404 /\ OfferHttpStatus("internal") = 500
       /\ OfferHttpStatus("offer_invalidated") = 410 /\ OfferHttpStatus("offer_expired") = 410
  BY DEF OfferHttpStatus
<1>14. \A kind : IsRefused(Refused(kind)) /\ Refused(kind).error = kind
  BY DEF IsRefused, Refused
<1>15. asked.parses => token = spelt /\ token # Unset /\ token.offerId = record.id
  BY <1>8
<1>16. ~asked.parses => token = Unset
  OBVIOUS
<1> HIDE DEF token
<1>17. ASSUME ~genuine
       PROVE  /\ IsRefused(verified)
              /\ Safe(row.net) /\ Safe(row.sell) => verified = Refused("offer_not_found")
  <2>1. \/ verified = Refused("offer_not_found")
        \/ verified = Refused("internal") /\ ~(Safe(row.net) /\ Safe(row.sell))
    BY <1>9, <1>10, <1>11, <1>15, <1>16, <1>17
  <2> QED
    BY <1>14, <2>1
<1>18. ASSUME genuine
       PROVE  verified = IF row.invalidatedAt # Unset THEN Refused("offer_invalidated")
                         ELSE IF at >= record.expiresAt THEN Refused("offer_expired")
                         ELSE Read(row)
  BY <1>9, <1>10, <1>11, <1>12, <1>15, <1>18
<1>19. ASSUME genuine, row.invalidatedAt # Unset \/ at >= record.expiresAt
       PROVE  IsRefused(verified) /\ OfferHttpStatus(verified.error) = 410
  <2>1. verified \in {Refused("offer_invalidated"), Refused("offer_expired")}
    BY <1>18, <1>19
  <2> QED
    BY <1>13, <1>14, <2>1
<1>20. /\ Read(row).net = [amount |-> row.net, currency |-> row.currency]
       /\ Read(row).sell = [amount |-> row.sell, currency |-> row.currency]
       /\ Read(row).expiresAt = row.expiresAt /\ Read(row).supplierOfferToken = row.supplierOfferToken
       /\ Read(row).checkedAt = row.checkedAt /\ ~IsRefused(Read(row))
  BY <1>7, RowRead
<1>21. ASSUME genuine, row.invalidatedAt = Unset, at < record.expiresAt
       PROVE  /\ verified.net = input.offer.net /\ verified.sell = input.offer.sell
              /\ verified.expiresAt = input.offer.expiresAt
              /\ verified.supplierOfferToken = input.supplierOfferToken
  <2>1. verified = Read(row)
    BY <1>2, <1>4, <1>18, <1>21
  <2>2. Intact(row, issued)
    BY <1>10, <1>21
  <2>3. /\ row.net = record.net.amount /\ row.sell = record.sell.amount
        /\ row.currency = record.sell.currency /\ row.expiresAt = record.expiresAt
        /\ row.supplierOfferToken = record.supplierOfferToken
    BY <1>6, <2>2 DEF Intact
  <2>4. /\ record.net = [amount |-> record.net.amount, currency |-> record.currency]
        /\ record.sell = [amount |-> record.sell.amount, currency |-> record.currency]
    BY <1>3 DEF Issuable
  <2>5. verified.net = record.net /\ verified.sell = record.sell
    BY <1>20, <2>1, <2>3, <2>4
  <2> QED
    BY <1>4, <1>20, <2>1, <2>3, <2>5
<1>22. ASSUME ~IsRefused(bookable)
       PROVE  genuine /\ bookable.checkedAt \in (at - BookableWindowSeconds)..at
  <2>1. /\ bookable = verified /\ ~IsRefused(verified)
        /\ verified.checkedAt # Unset /\ ~(at - verified.checkedAt > BookableWindowSeconds)
    BY <1>14, <1>22 DEF RequireBookableOffer
  <2>2. genuine
    BY <1>17, <2>1
  <2>3. verified = Read(row)
    BY <1>14, <1>18, <2>1, <2>2
  <2>4. row.checkedAt \in Int /\ row.checkedAt <= at /\ ~(at - row.checkedAt > BookableWindowSeconds)
    BY <1>2, <1>20, <2>1, <2>3
  <2> DEFINE checkedAt == row.checkedAt
  <2>5. checkedAt \in Int /\ checkedAt <= at /\ ~(at - checkedAt > BookableWindowSeconds) /\ at \in Int
    BY <1>2, <2>4
  <2> HIDE DEF checkedAt
  <2>6. checkedAt \in (at - BookableWindowSeconds)..at
    BY <2>5, OfferTtlAssumption
  <2> QED
    BY <1>20, <2>1, <2>2, <2>3, <2>6 DEF checkedAt
<1> HIDE DEF bookable
<1> QED
  <2>1. row = RowNow(record)
    BY DEF row, issued, RowNow
  <2>2. verified = Verdict(record)
    BY DEF verified, Verdict, TokenShown, RowNow, token, spelt, row, issued, caller, at
  <2>3. genuine = Genuine(record)
    BY <2>1 DEF genuine, Genuine, issued, inScope, InScope, caller
  <2> QED
    BY <1>5, <1>17, <1>19, <1>21, <1>22, <2>1, <2>2, <2>3 DEF at, input, bookable
-----------------------------------------------------------------------------
(* Where a fee is read: the preview, the portals, the voucher.             *)

\* A decimal is worth the amount it was printed of, where the digits are those
\* of the currency.
LEMMA PrintsItsWorth ==
    ASSUME NEW amount \in Nat, NEW currency
    PROVE  Worth(Decimal(amount, MinorDigits(currency)), currency) = amount
<1> DEFINE digits == MinorDigits(currency)
           scale == 10 ^ digits
           printed == Decimal(amount, digits)
<1>1. digits \in {0, 2, 3}
  BY DEF MinorDigits
<1>2. 10 ^ 0 = 1 /\ 10 ^ 2 = 100 /\ 10 ^ 3 = 1000
  OBVIOUS
<1>3. scale \in {1, 100, 1000}
  <2>1. digits = 0 => scale = 10 ^ 0
    OBVIOUS
  <2>2. digits = 2 => scale = 10 ^ 2
    OBVIOUS
  <2>3. digits = 3 => scale = 10 ^ 3
    OBVIOUS
  <2> QED
    BY <1>1, <1>2, <2>1, <2>2, <2>3
<1>4. printed.digits = digits /\ printed.units = amount \div scale /\ printed.minor = amount % scale
  BY DEF Decimal, Magnitude
<1>5. Worth(printed, currency) = ((printed.units * scale + printed.minor) * scale) \div scale
  <2> HIDE DEF printed
  <2>1. Worth(printed, currency) =
           ((printed.units * 10 ^ printed.digits + printed.minor) * 10 ^ MinorDigits(currency))
               \div 10 ^ printed.digits
    BY Zenon DEF Worth
  <2> QED
    BY <1>4, <2>1, Zenon
<1> HIDE DEF scale, printed
<1>6. amount = scale * (amount \div scale) + (amount % scale)
  BY <1>3
<1>7. (amount * scale) \div scale = amount
  BY <1>3
<1>8. printed.units * scale + printed.minor = amount
  <2>1. (amount \div scale) * scale + (amount % scale) = amount
    BY <1>3
  <2> QED
    BY <1>4, <2>1
<1> QED
  BY <1>5, <1>7, <1>8 DEF printed

\* A policy as it is stored: the loop's rule is the one whose time it is.
LEMMA RuleOfTheTime ==
    ASSUME NEW n, NEW rules, Timed(rules, n), NEW at \in Int, NEW k \in 1..n,
           rules[k].fromUtc <= at, k < n => at < rules[k + 1].fromUtc
    PROVE  RulesPassed(rules, at) = k
<1>1. /\ RulesPassed(rules, at) \in 0..n
      /\ \A j \in 1..n : j <= RulesPassed(rules, at) <=> rules[j].fromUtc <= at
  BY LoopParts
<1> DEFINE passed == RulesPassed(rules, at)
<1> HIDE DEF passed
<1>2. passed \in 0..n /\ n \in Nat /\ k <= passed
  BY <1>1 DEF passed, Timed
<1>3. passed = k
  <2> SUFFICES ASSUME k < passed PROVE FALSE
    BY <1>2
  <2>1. k + 1 \in 1..n /\ k < n /\ k + 1 <= passed
    BY <1>2
  <2>2. rules[k + 1].fromUtc <= at /\ at < rules[k + 1].fromUtc
    BY <1>1, <2>1 DEF passed
  <2> QED
    BY <2>1, <2>2 DEF Timed
<1> QED
  BY <1>3 DEF passed

LEMMA NoRuleYet ==
    ASSUME NEW n, NEW rules, Timed(rules, n), NEW at \in Int, n = 0 \/ at < rules[1].fromUtc
    PROVE  RulesPassed(rules, at) = 0
<1>1. /\ RulesPassed(rules, at) \in 0..n
      /\ \A j \in 1..n : j <= RulesPassed(rules, at) <=> rules[j].fromUtc <= at
  BY LoopParts
<1> DEFINE passed == RulesPassed(rules, at)
<1> HIDE DEF passed
<1>2. passed \in 0..n /\ n \in Nat
  BY <1>1 DEF passed, Timed
<1>3. passed = 0
  <2> SUFFICES ASSUME 1 <= passed PROVE FALSE
    BY <1>2
  <2>1. 1 \in 1..n
    BY <1>2
  <2>2. rules[1].fromUtc <= at /\ at < rules[1].fromUtc
    BY <1>1, <1>2, <2>1 DEF passed
  <2> QED
    BY <2>1, <2>2 DEF Timed
<1> QED
  BY <1>3 DEF passed

\* penaltyFor in the terms of the rule passed.
LEMMA PenaltyOfThePassed ==
    ASSUME NEW rules, NEW at
    PROVE  /\ RulesPassed(rules, at) = 0 => PenaltyFor(rules, at) = 0 /\ ResolvePenaltyAt(rules, at) = {}
           /\ RulesPassed(rules, at) # 0 =>
                 /\ PenaltyFor(rules, at) = rules[RulesPassed(rules, at)].penalty
                 /\ ResolvePenaltyAt(rules, at) # {}
  BY DEF PenaltyFor, ResolvePenaltyAt

Holds(segment, at) ==
    /\ segment.from = Unset \/ at >= segment.from
    /\ segment.until = Unset \/ at < segment.until

OfRule(segment, rules, j) ==
    segment = [from |-> rules[j].fromUtc,
               until |-> IF j = Len(rules) THEN Unset ELSE rules[j + 1].fromUtc,
               penalty |-> rules[j].penalty]

\* A window of the timeline is in force while its rule is.
LEMMA RuleInForce ==
    ASSUME Unset \notin Int, NEW n, NEW rules, Timed(rules, n), NEW at \in Int, NEW j \in 1..n,
           NEW segment, OfRule(segment, rules, j)
    PROVE  /\ Holds(segment, at) <=> RulesPassed(rules, at) = j
           /\ Len(SegmentWindow(segment)) = 2
<1> DEFINE passed == RulesPassed(rules, at)
           from == segment.from
           until == segment.until
<1>1. /\ passed \in 0..n
      /\ \A k \in 1..n : k <= passed <=> rules[k].fromUtc <= at
  BY LoopParts
<1>2. n \in Nat /\ Len(rules) = n /\ \A k \in 1..n : rules[k].fromUtc \in Int
  BY DEF Timed
<1>3. from = rules[j].fromUtc /\ until = IF j = n THEN Unset ELSE rules[j + 1].fromUtc
  BY <1>2 DEF OfRule
<1>4. from \in Int /\ from # Unset /\ (j # n => until \in Int /\ until # Unset) /\ (j = n => until = Unset)
  BY <1>2, <1>3
<1>5. Holds(segment, at) <=> at >= from /\ (j = n \/ at < until)
  BY <1>4 DEF Holds
<1>6. ASSUME at >= from, j = n \/ at < until PROVE passed = j
  <2>1. rules[j].fromUtc <= at /\ (j < n => at < rules[j + 1].fromUtc)
    BY <1>2, <1>3, <1>4, <1>6
  <2> QED
    BY <2>1, RuleOfTheTime
<1>7. ASSUME passed = j PROVE at >= from /\ (j = n \/ at < until)
  <2>1. rules[j].fromUtc <= at
    BY <1>1, <1>2, <1>7
  <2>2. j # n => j + 1 \in 1..n /\ ~(j + 1 <= passed)
    BY <1>2, <1>7
  <2>3. j # n => ~(rules[j + 1].fromUtc <= at)
    BY <1>1, <2>2
  <2>4. j # n => rules[j + 1].fromUtc \in Int
    BY <1>2, <2>2
  <2> QED
    BY <1>2, <1>3, <2>1, <2>3, <2>4
<1>8. Len(SegmentWindow(segment)) = 2
  <2>1. CASE until # Unset
    <3>1. SegmentWindow(segment) = <<"until", until>>
      BY <2>1 DEF SegmentWindow
    <3> QED
      BY <3>1
  <2>2. CASE until = Unset
    <3>1. SegmentWindow(segment) = <<"from", from>>
      BY <1>4, <2>2 DEF SegmentWindow
    <3> QED
      BY <3>1
  <2> QED
    BY <2>1, <2>2
<1> QED
  BY <1>5, <1>6, <1>7, <1>8

\* The timeline: a free window, if any, is the first and ends with the first
\* rule; there is one for each rule; and none is in force only before the first
\* rule of a policy that is not refundable.
FreeOne(segments, k, refundable, rules, at) ==
    /\ segments[k].penalty = Unset
    /\ Holds(segments[k], at) => RulesPassed(rules, at) = 0
    /\ refundable \/ rules = <<>>
    /\ Len(SegmentWindow(segments[k])) = 0 => Len(segments) = 1

RuleOne(segments, k, rules, at) ==
    \E j \in 1..Len(rules) :
        /\ segments[k].penalty = rules[j].penalty
        /\ Holds(segments[k], at) => RulesPassed(rules, at) = j
        /\ Len(SegmentWindow(segments[k])) = 2

Timeline(segments, refundable, rules, at) ==
    /\ \E m \in Nat : DOMAIN segments = 1..m /\ Len(segments) = m
    /\ \A k \in DOMAIN segments :
          FreeOne(segments, k, refundable, rules, at) \/ RuleOne(segments, k, rules, at)
    /\ (\A k \in DOMAIN segments : ~Holds(segments[k], at)) =>
          RulesPassed(rules, at) = 0 /\ ~refundable /\ rules # <<>>

LEMMA TimelineOfThePolicy ==
    ASSUME Unset \notin Int, NEW n, NEW rules, Timed(rules, n), rules \in Seq(Range(rules)),
           NEW at \in Int, NEW policy, policy.rules = rules
    PROVE  Timeline(ComputePolicyTimeline(policy), policy.refundable, rules, at)
<1> DEFINE segments == ComputePolicyTimeline(policy)
           refundable == policy.refundable
           passed == RulesPassed(rules, at)
           free(until) == <<[from |-> Unset, until |-> until, penalty |-> Unset]>>
           own == RuleSegments(rules)
<1>1. n \in Nat /\ Len(rules) = n /\ DOMAIN rules = 1..n
  BY DEF Timed
<1>2. /\ passed \in 0..n
      /\ \A k \in 1..n : k <= passed <=> rules[k].fromUtc <= at
  BY LoopParts
<1>3. \A j \in 1..n : OfRule(own[j], rules, j)
  BY <1>1 DEF RuleSegments, OfRule
<1>4. \A j \in 1..n : /\ Holds(own[j], at) <=> passed = j
                      /\ Len(SegmentWindow(own[j])) = 2
                      /\ own[j].penalty = rules[j].penalty
  <2> SUFFICES ASSUME NEW j \in 1..n
               PROVE  /\ Holds(own[j], at) <=> passed = j
                      /\ Len(SegmentWindow(own[j])) = 2
                      /\ own[j].penalty = rules[j].penalty
    OBVIOUS
  <2> DEFINE segment == own[j]
  <2>1. OfRule(segment, rules, j)
    BY <1>3
  <2>2. segment.penalty = rules[j].penalty
    BY <2>1 DEF OfRule
  <2> HIDE DEF segment
  <2>3. /\ Holds(segment, at) <=> RulesPassed(rules, at) = j
        /\ Len(SegmentWindow(segment)) = 2
    BY <2>1, RuleInForce
  <2> QED
    BY <2>2, <2>3 DEF segment
<1>5. own \in Seq(Range(own)) /\ Len(own) = n /\ DOMAIN own = 1..n
  <2>1. DOMAIN own = 1..n
    BY <1>1 DEF RuleSegments
  <2>2. own = [i \in 1..n |-> own[i]]
    BY <1>1 DEF RuleSegments
  <2> HIDE DEF own
  <2>3. \A i \in 1..n : own[i] \in Range(own)
    BY <2>1 DEF Range
  <2> QED
    BY <1>1, <2>1, <2>2, <2>3
<1> HIDE DEF own, passed
<1>6. CASE rules = <<>>
  <2>1. segments = free(Unset)
    BY <1>6 DEF ComputePolicyTimeline
  <2>2. Len(segments) = 1 /\ DOMAIN segments = 1..1 /\ segments[1].from = Unset /\ segments[1].until = Unset
        /\ segments[1].penalty = Unset
    BY <2>1
  <2> HIDE DEF segments, refundable
  <2>3. n = 0 /\ passed = 0
    BY <1>1, <1>2, <1>6
  <2>4. \A k \in 1..1 : FreeOne(segments, k, refundable, rules, at)
    BY <1>6, <2>2, <2>3 DEF FreeOne, passed
  <2>5. Holds(segments[1], at)
    BY <2>2 DEF Holds
  <2> QED
    BY <2>2, <2>4, <2>5 DEF Timeline, segments, refundable
<1>7. CASE rules # <<>> /\ ~refundable
  <2>1. segments = <<>> \o own
    BY <1>7 DEF ComputePolicyTimeline, own
  <2>2. segments = own
    BY <1>5, <2>1
  <2> HIDE DEF segments, refundable
  <2>3. \A k \in 1..n : RuleOne(segments, k, rules, at)
    BY <1>1, <1>4, <2>2 DEF RuleOne, passed
  <2>4. (\A k \in 1..n : ~Holds(segments[k], at)) => passed = 0
    BY <1>2, <1>4, <2>2
  <2> QED
    BY <1>1, <1>5, <1>7, <2>2, <2>3, <2>4 DEF Timeline, segments, refundable, passed
<1>8. CASE rules # <<>> /\ refundable
  <2> DEFINE first == free(rules[1].fromUtc)
  <2>1. segments = first \o own
    BY <1>8 DEF ComputePolicyTimeline, own
  <2>2. n >= 1 /\ rules[1].fromUtc \in Int
    BY <1>1, <1>8 DEF Timed
  <2>3. first \in Seq(Range(first)) /\ Len(first) = 1
    BY DEF Range
  <2>4. first[1] = [from |-> Unset, until |-> rules[1].fromUtc, penalty |-> Unset]
    OBVIOUS
  <2> HIDE DEF segments, refundable, first
  <2>5. /\ Len(segments) = 1 + n /\ DOMAIN segments = 1..(1 + n) /\ segments[1] = first[1]
        /\ \A k \in 1..n : segments[k + 1] = own[k]
    <3> DEFINE R == Range(first) \cup Range(own)
    <3>1. first \in Seq(R) /\ own \in Seq(R)
      BY <1>5, <2>3
    <3> HIDE DEF R
    <3>2. /\ segments \in Seq(R)
          /\ Len(segments) = 1 + n
          /\ \A k \in 1..(1 + n) : segments[k] = IF k <= 1 THEN first[k] ELSE own[k - 1]
      <4>1. /\ segments \in Seq(R)
            /\ Len(segments) = Len(first) + Len(own)
            /\ \A k \in 1..(Len(first) + Len(own)) :
                  segments[k] = IF k <= Len(first) THEN first[k] ELSE own[k - Len(first)]
        BY <2>1, <3>1, ConcatProperties, Zenon
      <4> QED
        BY <1>5, <2>3, <4>1
    <3>3. ASSUME NEW k \in 1..n PROVE segments[k + 1] = own[k]
      <4>1. k + 1 \in 1..(1 + n) /\ ~(k + 1 <= 1) /\ (k + 1) - 1 = k
        BY <1>1
      <4> QED
        BY <3>2, <4>1
    <3> QED
      BY <1>1, <3>2, <3>3
  <2>6. segments[1].from = Unset /\ segments[1].until = rules[1].fromUtc /\ segments[1].penalty = Unset
    BY <2>4, <2>5
  <2>7. Holds(segments[1], at) <=> passed = 0
    <3>1. Holds(segments[1], at) <=> at < rules[1].fromUtc
      BY <2>2, <2>6 DEF Holds
    <3>2. 1 <= passed <=> rules[1].fromUtc <= at
      BY <1>1, <1>2, <2>2
    <3> QED
      BY <1>1, <1>2, <2>2, <3>1, <3>2
  <2>8. FreeOne(segments, 1, refundable, rules, at)
    <3>1. SegmentWindow(segments[1]) = <<"until", segments[1].until>>
      BY <2>2, <2>6 DEF SegmentWindow
    <3>2. Len(SegmentWindow(segments[1])) = 2
      BY <3>1
    <3> QED
      BY <1>8, <2>6, <2>7, <3>2 DEF FreeOne, passed
  <2>9. ASSUME NEW k \in 1..n PROVE RuleOne(segments, k + 1, rules, at)
    <3>1. segments[k + 1] = own[k]
      BY <2>5
    <3> QED
      BY <1>1, <1>4, <3>1 DEF RuleOne, passed
  <2>10. \A k \in 1..(1 + n) : FreeOne(segments, k, refundable, rules, at) \/ RuleOne(segments, k, rules, at)
    <3> SUFFICES ASSUME NEW k \in 1..(1 + n), k # 1 PROVE RuleOne(segments, k, rules, at)
      BY <2>8
    <3>1. k - 1 \in 1..n /\ (k - 1) + 1 = k
      BY <1>1
    <3> QED
      BY <2>9, <3>1
  <2>11. \E k \in 1..(1 + n) : Holds(segments[k], at)
    <3>1. CASE passed = 0
      BY <1>1, <2>7, <3>1
    <3>2. CASE passed # 0
      <4>1. passed \in 1..n /\ passed + 1 \in 1..(1 + n)
        BY <1>1, <1>2, <3>2
      <4>2. Holds(segments[passed + 1], at)
        BY <1>4, <2>5, <4>1
      <4> QED
        BY <4>1, <4>2
    <3> QED
      BY <3>1, <3>2
  <2>12. 1 + n \in Nat
    BY <1>1
  <2> QED
    BY <2>5, <2>10, <2>11, <2>12 DEF Timeline, segments, refundable
<1> QED
  BY <1>6, <1>7, <1>8

\* A deadline has begun in a minute if it has by the minute's last tick.
LEMMA BegunByTheMinute ==
    ASSUME NEW from \in Int, NEW minute \in Int
    PROVE  FormatUtcInstant(from) <= minute <=> from <= (minute + 1) * TicksPerMinute - 1
<1> DEFINE T == TicksPerMinute
           q == from \div T
           r == from % T
<1>1. T \in Nat /\ T > 0
  BY TicksAssumption
<1>2. q \in Int /\ r \in 0..(T - 1) /\ from = T * q + r
  BY <1>1
<1>3. FormatUtcInstant(from) = q
  BY DEF FormatUtcInstant
<1> HIDE DEF T, q, r
<1>4. q <= minute => T * q <= T * minute
  BY <1>1, <1>2
<1>5. q >= minute + 1 => T * q >= T * (minute + 1)
  BY <1>1, <1>2
<1>6. T * (minute + 1) = T * minute + T /\ (minute + 1) * T = T * minute + T /\ T * minute \in Int /\ T * q \in Int
  BY <1>1, <1>2
<1> DEFINE a == T * q
           b == T * minute
<1>7. /\ q <= minute => a <= b
      /\ q >= minute + 1 => a >= b + T
      /\ from = a + r /\ a \in Int /\ b \in Int /\ (minute + 1) * T = b + T
  BY <1>2, <1>4, <1>5, <1>6
<1> HIDE DEF a, b
<1>8. q <= minute <=> from <= (b + T) - 1
  BY <1>1, <1>2, <1>7
<1> QED
  BY <1>3, <1>7, <1>8 DEF T

\* A policy as the adapter stores it of charges that are no credits.
Chargeable(rules, n) ==
    /\ Timed(rules, n) /\ DOMAIN rules = 1..n /\ rules \in Seq(Range(rules))
    /\ \A k \in 1..n : rules[k].penalty \in Nat

\* The last line that has begun is the rule in force at the minute's last tick.
LEMMA VoucherTells ==
    ASSUME NEW n, NEW rules, Chargeable(rules, n), NEW policy, NEW currency,
           policy.rules = rules, policy.currency = currency,
           DocumentDigits(currency) = MinorDigits(currency), NEW minute \in Int
    PROVE  VoucherFee(PolicyLines(policy), minute, currency)
               = PenaltyFor(rules, (minute + 1) * TicksPerMinute - 1)
<1> DEFINE lines == PolicyLines(policy)
           toCome == (minute + 1) * TicksPerMinute - 1
           passed == RulesPassed(rules, toCome)
           begun == {i \in DOMAIN lines : lines[i].from <= minute}
           last == CHOOSE i \in begun : \A j \in begun : j <= i
<1>14. Timed(rules, n) /\ DOMAIN rules = 1..n /\ \A k \in 1..n : rules[k].penalty \in Nat
  BY DEF Chargeable
<1>1. toCome \in Int /\ n \in Nat
  BY <1>14, TicksAssumption DEF Timed
<1>2. DOMAIN lines = 1..n
  BY <1>14 DEF PolicyLines
<1>10. \A k \in 1..n : lines[k].from = FormatUtcInstant(rules[k].fromUtc)
  BY <1>14 DEF PolicyLines
<1>11. \A k \in 1..n : lines[k].free <=> rules[k].penalty = 0
  BY <1>14 DEF PolicyLines
<1>12. \A k \in 1..n : lines[k].money = DocumentMoney([amount |-> rules[k].penalty, currency |-> currency])
  BY <1>14 DEF PolicyLines
<1>3. VoucherFee(lines, minute, currency) =
         IF begun = {} \/ lines[last].free THEN 0 ELSE Worth(lines[last].money, currency)
  BY DEF VoucherFee
<1> HIDE DEF lines
<1>4. /\ passed \in 0..n
      /\ \A k \in 1..n : k <= passed <=> rules[k].fromUtc <= toCome
  <2> HIDE DEF toCome
  <2> QED
    BY <1>1, <1>14, LoopParts
<1>5. begun = 1..passed
  <2>1. \A k \in 1..n : lines[k].from <= minute <=> rules[k].fromUtc <= toCome
    BY <1>10, <1>14, BegunByTheMinute DEF Timed
  <2> HIDE DEF passed, toCome
  <2>2. \A k \in 1..n : k \in begun <=> k <= passed
    BY <1>2, <1>4, <2>1
  <2>3. begun \subseteq 1..n
    BY <1>2
  <2> QED
    BY <1>1, <1>4, <2>2, <2>3
<1>6. /\ passed = 0 => PenaltyFor(rules, toCome) = 0
      /\ passed # 0 => PenaltyFor(rules, toCome) = rules[passed].penalty
  BY PenaltyOfThePassed
<1>7. passed # 0 => last = passed
  <2> SUFFICES ASSUME passed # 0 PROVE last = passed
    OBVIOUS
  <2> HIDE DEF begun, passed
  <2>1. passed \in begun /\ \A j \in begun : j <= passed
    BY <1>1, <1>4, <1>5
  <2>2. last \in begun /\ \A j \in begun : j <= last
    BY <2>1
  <2>3. last \in 1..passed /\ passed <= last
    BY <1>5, <2>1, <2>2
  <2> HIDE DEF last
  <2> QED
    BY <1>1, <1>4, <2>3
<1> HIDE DEF begun, last, passed
<1>8. CASE passed = 0
  <2>1. begun = {}
    BY <1>5, <1>8
  <2> QED
    BY <1>3, <1>6, <1>8, <2>1, Zenon DEF lines
<1>9. CASE passed # 0
  <2>1. passed \in 1..n /\ begun # {}
    BY <1>1, <1>4, <1>5, <1>9
  <2> DEFINE penalty == rules[passed].penalty
             printed == lines[passed].money
  <2>2. penalty \in Nat
    BY <1>14, <2>1
  <2>6. lines[passed].free <=> penalty = 0
    BY <1>11, <2>1, Zenon
  <2>3. printed = DocumentMoney([amount |-> penalty, currency |-> currency])
    BY <1>12, <2>1, Zenon
  <2> HIDE DEF penalty, printed
  <2>4. printed = Decimal(penalty, MinorDigits(currency))
    BY <2>3 DEF DocumentMoney
  <2>5. Worth(printed, currency) = penalty
    BY <2>2, <2>4, PrintsItsWorth
  <2>7. VoucherFee(lines, minute, currency) =
           IF begun = {} \/ lines[passed].free THEN 0 ELSE Worth(printed, currency)
    BY <1>3, <1>7, <1>9, Zenon DEF printed
  <2>8. VoucherFee(lines, minute, currency) = penalty
    <3>1. CASE lines[passed].free
      BY <2>1, <2>6, <2>7, <3>1, Zenon
    <3>2. CASE ~lines[passed].free
      BY <2>1, <2>5, <2>7, <3>2, Zenon
    <3> QED
      BY <3>1, <3>2
  <2>9. PenaltyFor(rules, toCome) = penalty
    BY <1>6, <1>9 DEF penalty
  <2> QED
    BY <2>8, <2>9 DEF lines
<1> QED
  BY <1>8, <1>9 DEF lines

\* The preview of a policy charges its penalty.
LEMMA PreviewTells ==
    ASSUME NEW item, NEW sell, NEW policy, NEW at, NEW preview \in PreviewCancellation(item, at),
           item.sell = sell, item.policy = policy,
           sell = [amount |-> sell.amount, currency |-> sell.currency],
           \A amount, currency : Unset # [amount |-> amount, currency |-> currency]
    PROVE  /\ preview.penalty.amount = PenaltyFor(policy.rules, at)
           /\ IF preview.refund = Unset THEN policy.currency # sell.currency
              ELSE preview.refund.amount = sell.amount - PenaltyFor(policy.rules, at)
<1> DEFINE fee == PenaltyFor(policy.rules, at)
           penalty == preview.penalty
           none == ResolvePenaltyAt(policy.rules, at) = {}
<1>1. preview = BuildPreview(item, at)
  BY DEF PreviewCancellation
<1>2. penalty = IF none THEN [amount |-> 0, currency |-> sell.currency]
                ELSE [amount |-> fee, currency |-> policy.currency]
  BY <1>1 DEF BuildPreview
<1>3. none => fee = 0
  BY DEF PenaltyFor
<1>4. preview.refund = IF penalty.currency = sell.currency
                       THEN [sell EXCEPT !.amount = @ - penalty.amount] ELSE Unset
  BY <1>1 DEF BuildPreview
<1> HIDE DEF none, fee
<1>5. penalty.amount = fee /\ (penalty.currency = sell.currency \/ penalty.currency = policy.currency)
  BY <1>2, <1>3
<1> HIDE DEF penalty
<1>6. CASE penalty.currency = sell.currency
  <2>1. preview.refund = [amount |-> sell.amount - fee, currency |-> sell.currency]
    BY <1>4, <1>5, <1>6
  <2>2. preview.refund # Unset /\ preview.refund.amount = sell.amount - fee
    BY <2>1
  <2> QED
    BY <1>5, <2>2 DEF fee, penalty
<1>7. CASE penalty.currency # sell.currency
  <2>1. preview.refund = Unset /\ policy.currency # sell.currency
    BY <1>4, <1>5, <1>7
  <2> QED
    BY <1>5, <2>1 DEF fee, penalty
<1> QED
  BY <1>6, <1>7

\* Fees are not negative where charges and nets are not.
LEMMA PenaltyIsNoCredit ==
    ASSUME NEW row, row.charge.numerator \in Nat, row.charge.denominator \in Nat \ {0},
           NEW net, net.amount \in Nat
    PROVE  Penalty(row, net) \in Nat
<1>1. CASE row.chargeType = "Fixed"
  <2> DEFINE charge == row.charge
  <2>1. charge.numerator \in Nat /\ charge.denominator \in Nat \ {0}
    OBVIOUS
  <2>2. Penalty(row, net) = TboAmountToMoney(charge, net.currency)
    BY <1>1 DEF Penalty
  <2> HIDE DEF charge
  <2>3. TboAmountToMoney(charge, net.currency) \in Int /\ TboAmountToMoney(charge, net.currency) >= 0
    BY <2>1, AmountsAreWhole
  <2> QED
    BY <2>2, <2>3
<1>2. CASE row.chargeType # "Fixed"
  <2> DEFINE num == row.charge.numerator
             den == row.charge.denominator * 100
             x == net.amount * num
  <2>1. x \in Nat /\ den \in Nat \ {0}
    OBVIOUS
  <2>2. Penalty(row, net) = DivideRoundHalfAwayFromZero(x, den)
    BY <1>2 DEF Penalty, MultiplyByScalar
  <2> HIDE DEF x, den
  <2>3. DivideRoundHalfAwayFromZero(x, den) \in Int /\ DivideRoundHalfAwayFromZero(x, den) >= 0
    BY <2>1, RoundsToNearest
  <2> QED
    BY <2>2, <2>3
<1> QED
  BY <1>1, <1>2

\* A policy the adapter made of rows that charge something.
LEMMA PolicyCharges ==
    ASSUME NEW n, NEW rows, Rated(rows, n), \A i \in 1..n : rows[i].charge.numerator >= 0,
           NEW net, net.amount \in Nat, NEW rules \in MapCancellationPolicy(rows, net)
    PROVE  Chargeable(rules, n)
<1>1. n \in Nat /\ DOMAIN rows = 1..n /\ \A i \in 1..n : rows[i].fromDate \in Int
  BY DEF Rated
<1> DEFINE order == RowOrder(rows)
<1>2. order \in [1..n -> 1..n]
  BY <1>1, RowOrderSorts
<1>3. /\ Timed(rules, n)
      /\ rules = [k \in 1..n |-> [fromUtc |-> TboDateTimeToUtc(rows[order[k]].fromDate),
                                  penalty |-> Penalty(rows[order[k]], net)]]
  BY <1>1, PolicyOfRows
<1> HIDE DEF order
<1>4. DOMAIN rules = 1..n /\ rules = [k \in 1..n |-> rules[k]] /\ \A k \in 1..n : rules[k] \in Range(rules)
  BY <1>3 DEF Range
<1>5. rules \in Seq(Range(rules))
  BY <1>1, <1>4
<1>6. ASSUME NEW i \in 1..n PROVE Penalty(rows[i], net) \in Nat
  <2> DEFINE row == rows[i]
  <2>1. row.charge.numerator \in Nat /\ row.charge.denominator \in Nat \ {0}
    BY DEF Rated
  <2> HIDE DEF row
  <2>2. Penalty(row, net) \in Nat
    BY <2>1, PenaltyIsNoCredit
  <2> QED
    BY <2>2 DEF row
<1>7. \A k \in 1..n : rules[k].penalty \in Nat
  BY <1>2, <1>3, <1>6
<1> QED
  BY <1>3, <1>4, <1>5, <1>7 DEF Chargeable

\* The timeline of the portals tells the penalty.
TimelineTells(shown, currency, refundable, rules, at) ==
    /\ \A k \in DOMAIN shown : shown[k].active =>
          IF shown[k].free THEN PenaltyFor(rules, at) = 0
          ELSE Worth(shown[k].money, currency) = PenaltyFor(rules, at)
    /\ (\A k \in DOMAIN shown : ~shown[k].active) =>
          PenaltyFor(rules, at) = 0 /\ ~refundable /\ rules # <<>>
    /\ \A k \in DOMAIN shown : shown[k].free => refundable \/ rules = <<>>
    /\ \A k \in DOMAIN shown : Len(shown[k].window) = 0 => Len(shown) = 1

LEMMA PortalTells ==
    ASSUME Unset \notin Int, NEW n, NEW rules, Chargeable(rules, n), NEW policy, NEW currency,
           policy.rules = rules, policy.currency = currency,
           CldrDigits[currency] = MinorDigits(currency), NEW at \in Int
    PROVE  TimelineTells(PolicyTimeline(policy, at), currency, policy.refundable, rules, at)
<1> DEFINE shown == PolicyTimeline(policy, at)
<1>15. /\ Timed(rules, n) /\ DOMAIN rules = 1..n /\ rules \in Seq(Range(rules))
       /\ \A k \in 1..n : rules[k].penalty \in Nat
  BY DEF Chargeable
<1> DEFINE segments == ComputePolicyTimeline(policy)
           fee == PenaltyFor(rules, at)
           passed == RulesPassed(rules, at)
           active == ActiveSegment(segments, at)
<1>1. Timeline(segments, policy.refundable, rules, at)
  BY <1>15, TimelineOfThePolicy
<1>2. /\ passed = 0 => fee = 0
      /\ passed # 0 => fee = rules[passed].penalty
  BY PenaltyOfThePassed
<1> DEFINE told(k) == [free   |-> segments[k].penalty = Unset,
                       money  |-> IF segments[k].penalty = Unset THEN Unset
                                  ELSE PortalMoney([amount |-> segments[k].penalty, currency |-> currency]),
                       window |-> SegmentWindow(segments[k]),
                       active |-> k \in active]
<1>3. shown = [k \in DOMAIN segments |-> told(k)]
  BY DEF PolicyTimeline
<1>13. \A k \in DOMAIN segments : shown[k].free <=> segments[k].penalty = Unset
  BY DEF PolicyTimeline
<1>14. \A k \in DOMAIN segments : shown[k].active <=> k \in active
  BY DEF PolicyTimeline
<1> HIDE DEF segments, shown
<1>4. active = {k \in DOMAIN segments :
                   Holds(segments[k], at) /\ \A j \in 1..(k - 1) : ~Holds(segments[j], at)}
  BY DEF ActiveSegment, Holds
<1> HIDE DEF active, fee, passed
<1>5. PICK m \in Nat : DOMAIN segments = 1..m /\ Len(segments) = m
  BY <1>1 DEF Timeline
<1>6. DOMAIN shown = 1..m /\ Len(shown) = m /\ \A k \in 1..m : shown[k] = told(k)
  <2> HIDE DEF told
  <2> QED
    BY <1>3, <1>5
<1>7. \A k \in 1..m : FreeOne(segments, k, policy.refundable, rules, at) \/ RuleOne(segments, k, rules, at)
  BY <1>1, <1>5 DEF Timeline
<1>8. ASSUME NEW k \in 1..m
      PROVE  /\ shown[k].free <=> segments[k].penalty = Unset
             /\ shown[k].active <=> k \in active
             /\ shown[k].window = SegmentWindow(segments[k])
             /\ segments[k].penalty # Unset =>
                   shown[k].money = PortalMoney([amount |-> segments[k].penalty, currency |-> currency])
  <2>1. shown[k] = told(k)
    BY <1>6
  <2>2. shown[k].free <=> segments[k].penalty = Unset
    BY <1>5, <1>13
  <2>3. shown[k].active <=> k \in active
    BY <1>5, <1>14
  <2>4. shown[k].window = SegmentWindow(segments[k])
    BY <2>1
  <2>5. segments[k].penalty # Unset =>
           shown[k].money = PortalMoney([amount |-> segments[k].penalty, currency |-> currency])
    BY <2>1
  <2> HIDE DEF told
  <2> QED
    BY <2>2, <2>3, <2>4, <2>5
<1>9. ASSUME NEW k \in 1..m, FreeOne(segments, k, policy.refundable, rules, at)
      PROVE  /\ shown[k].free
             /\ shown[k].active => fee = 0
             /\ policy.refundable \/ rules = <<>>
             /\ Len(shown[k].window) = 0 => Len(segments) = 1
  <2>1. segments[k].penalty = Unset /\ shown[k].free
    BY <1>8, <1>9 DEF FreeOne
  <2>2. k \in active => passed = 0
    BY <1>4, <1>9 DEF FreeOne, passed
  <2>3. shown[k].active => fee = 0
    BY <1>2, <1>8, <2>2
  <2> QED
    BY <1>8, <1>9, <2>1, <2>3 DEF FreeOne
<1>10. ASSUME NEW k \in 1..m, RuleOne(segments, k, rules, at)
       PROVE  /\ ~shown[k].free
              /\ shown[k].active => Worth(shown[k].money, currency) = fee
              /\ Len(shown[k].window) # 0
  <2>1. PICK j \in 1..n : /\ segments[k].penalty = rules[j].penalty
                          /\ Holds(segments[k], at) => passed = j
                          /\ Len(SegmentWindow(segments[k])) = 2
    BY <1>10, <1>15 DEF RuleOne, Timed, passed
  <2> DEFINE penalty == rules[j].penalty
             printed == shown[k].money
  <2>2. penalty \in Nat /\ penalty # Unset /\ segments[k].penalty = penalty
    BY <1>15, <2>1
  <2> HIDE DEF penalty
  <2>3. ~shown[k].free /\ printed = PortalMoney([amount |-> penalty, currency |-> currency])
    BY <1>8, <2>2
  <2>4. Len(shown[k].window) = 2
    BY <1>8, <2>1
  <2> HIDE DEF printed
  <2>5. printed = Decimal(penalty, MinorDigits(currency))
    BY <2>3 DEF PortalMoney
  <2>6. Worth(printed, currency) = penalty
    BY <2>2, <2>5, PrintsItsWorth
  <2>7. ASSUME shown[k].active PROVE penalty = fee
    <3>1. k \in active
      BY <1>8, <2>7
    <3>2. passed = j /\ j # 0
      BY <1>4, <2>1, <3>1
    <3> QED
      BY <1>2, <3>2 DEF penalty
  <2> QED
    BY <2>3, <2>4, <2>6, <2>7 DEF printed
<1>11. ASSUME \A k \in 1..m : ~shown[k].active
       PROVE  fee = 0 /\ ~policy.refundable /\ rules # <<>>
  <2> DEFINE H == {k \in 1..m : Holds(segments[k], at)}
  <2>1. H = {}
    <3> SUFFICES ASSUME H # {} PROVE FALSE
      OBVIOUS
    <3>1. PICK k \in H : \A j \in H : k <= j
      <4>1. H \subseteq Nat
        BY <1>5
      <4> HIDE DEF H
      <4> QED
        BY <4>1, LeastElement
    <3>2. \A j \in 1..(k - 1) : ~Holds(segments[j], at)
      <4> SUFFICES ASSUME NEW j \in 1..(k - 1), Holds(segments[j], at) PROVE FALSE
        OBVIOUS
      <4>1. k \in Int /\ k \in 1..m
        OBVIOUS
      <4>2. j \in 1..m /\ ~(k <= j)
        BY <4>1
      <4> QED
        BY <3>1, <4>2
    <3>3. k \in 1..m /\ k \in active
      BY <1>4, <1>5, <3>2
    <3> QED
      BY <1>8, <1>11, <3>3
  <2>2. \A k \in DOMAIN segments : ~Holds(segments[k], at)
    BY <1>5, <2>1
  <2>3. passed = 0 /\ ~policy.refundable /\ rules # <<>>
    BY <1>1, <2>2 DEF Timeline, passed
  <2> QED
    BY <1>2, <2>3
<1>12. Len(segments) = 1 => Len(shown) = 1
  BY <1>5, <1>6
<1> QED
  BY <1>6, <1>7, <1>9, <1>10, <1>11, <1>12 DEF fee, shown, TimelineTells

\* A view asked for: charges and nets are not negative, the sale is an amount
\* of a currency, and Intl knows the digits the adapter converted with.
Viewable(question, n) ==
    /\ Rated(question.rows, n)
    /\ \A i \in 1..n : question.rows[i].charge.numerator >= 0
    /\ question.net.amount \in Nat
    /\ question.sell = [amount |-> question.sell.amount, currency |-> question.sell.currency]
    /\ CldrDigits[question.net.currency] = MinorDigits(question.net.currency)
    /\ Unset \notin Int
    /\ \A amount, currency : Unset # [amount |-> amount, currency |-> currency]

\* buildPreview, computePolicyTimeline and policyLines, each on its own reading
\* of the policy the adapter stored, tell the fee of the supplier's row in
\* force, for any number of rows, at every instant.
THEOREM ViewsTellTheFee ==
    ASSUME NEW n, asked.kind = "view" => Viewable(asked, n)
    PROVE  EveryViewTellsTheFee
<1> DEFINE rows == asked.rows
           net  == asked.net
           sell == asked.sell
           currency == net.currency
<1> SUFFICES ASSUME asked.kind = "view", NEW rules \in MapCancellationPolicy(rows, net), NEW at \in Instants
             PROVE  LET policy   == [refundable |-> asked.refundable, rules |-> rules, currency |-> currency]
                        item     == [state |-> asked.state, sell |-> sell, policy |-> policy]
                        fee      == FeeAt(rows, net, at)
                        shown    == PolicyTimeline(policy, at)
                        active   == {k \in DOMAIN shown : shown[k].active}
                        minute   == FormatUtcInstant(at)
                        toCome   == (minute + 1) * TicksPerMinute - 1
                    IN  /\ \A preview \in PreviewCancellation(item, at) :
                              /\ preview.penalty.amount = fee
                              /\ IF preview.refund = Unset THEN currency # sell.currency
                                 ELSE preview.refund.amount = sell.amount - fee
                        /\ \A k \in active :
                              IF shown[k].free THEN fee = 0 ELSE Worth(shown[k].money, currency) = fee
                        /\ active = {} => fee = 0 /\ ~asked.refundable /\ rules # <<>>
                        /\ (\E k \in DOMAIN shown : shown[k].free) => asked.refundable \/ rules = <<>>
                        /\ \A k \in DOMAIN shown : Len(shown[k].window) = 0 => Len(shown) = 1
                        /\ DocumentDigits(currency) = MinorDigits(currency) =>
                              VoucherFee(PolicyLines(policy), minute, currency) = FeeAt(rows, net, toCome)
  BY DEF EveryViewTellsTheFee
<1> DEFINE policy   == [refundable |-> asked.refundable, rules |-> rules, currency |-> currency]
           item     == [state |-> asked.state, sell |-> sell, policy |-> policy]
           fee      == FeeAt(rows, net, at)
           shown    == PolicyTimeline(policy, at)
           active   == {k \in DOMAIN shown : shown[k].active}
           minute   == FormatUtcInstant(at)
           toCome   == (minute + 1) * TicksPerMinute - 1
<1>1. /\ Rated(rows, n) /\ \A i \in 1..n : rows[i].charge.numerator >= 0
      /\ net.amount \in Nat
  BY DEF Viewable
<1>2. /\ sell = [amount |-> sell.amount, currency |-> sell.currency]
      /\ CldrDigits[currency] = MinorDigits(currency)
      /\ Unset \notin Int
      /\ \A amount, unit : Unset # [amount |-> amount, currency |-> unit]
  BY DEF Viewable
<1>3. at \in Int /\ minute \in Int /\ toCome \in Int
  BY TicksAssumption, OffsetAssumption DEF Instants, FormatUtcInstant
<1>4. /\ policy.rules = rules /\ policy.currency = currency /\ policy.refundable = asked.refundable
      /\ item.sell = sell /\ item.policy = policy
  OBVIOUS
<1> HIDE DEF rows, net, sell, policy, item, minute
<1>5. Chargeable(rules, n)
  BY <1>1, PolicyCharges
<1>6. PenaltyFor(rules, at) = fee
  BY <1>1, <1>3, FeeOfThePolicy
<1>7. PenaltyFor(rules, toCome) = FeeAt(rows, net, toCome)
  <2> HIDE DEF toCome
  <2> QED
    BY <1>1, <1>3, FeeOfThePolicy
<1> HIDE DEF currency, fee
<1>8. ASSUME NEW preview \in PreviewCancellation(item, at)
      PROVE  /\ preview.penalty.amount = fee
             /\ IF preview.refund = Unset THEN currency # sell.currency
                ELSE preview.refund.amount = sell.amount - fee
  <2>1. /\ preview.penalty.amount = PenaltyFor(policy.rules, at)
        /\ IF preview.refund = Unset THEN policy.currency # sell.currency
           ELSE preview.refund.amount = sell.amount - PenaltyFor(policy.rules, at)
    BY <1>2, <1>4, PreviewTells
  <2> QED
    BY <1>4, <1>6, <2>1
<1>9. TimelineTells(shown, currency, asked.refundable, rules, at)
  BY <1>2, <1>3, <1>4, <1>5, PortalTells
<1> HIDE DEF shown
<1>10. \A k \in active : IF shown[k].free THEN fee = 0 ELSE Worth(shown[k].money, currency) = fee
  BY <1>6, <1>9 DEF TimelineTells
<1>11. active = {} => fee = 0 /\ ~asked.refundable /\ rules # <<>>
  BY <1>6, <1>9 DEF TimelineTells
<1>12. (\E k \in DOMAIN shown : shown[k].free) => asked.refundable \/ rules = <<>>
  BY <1>9 DEF TimelineTells
<1>14. \A k \in DOMAIN shown : Len(shown[k].window) = 0 => Len(shown) = 1
  BY <1>9 DEF TimelineTells
<1>13. DocumentDigits(currency) = MinorDigits(currency) =>
          VoucherFee(PolicyLines(policy), minute, currency) = FeeAt(rows, net, toCome)
  BY <1>3, <1>4, <1>5, <1>7, VoucherTells
<1> QED
  BY <1>8, <1>14, <1>10, <1>11, <1>12, <1>13 DEF rows, net, sell, currency, policy, item, fee, shown, minute
-----------------------------------------------------------------------------
(* A check of a signed offer: the row as it is read again, what it is      *)
(* priced at, and what of the rows a check leaves is bookable.             *)

\* A record whose token is good: signed, whole, of the agency, and not expired.
Sound(record, at) ==
    /\ Issuable(record, "tenant") /\ record.priceHash.key = "key"
    /\ record.invalidatedAt = Unset /\ record.expiresAt \in Int /\ record.expiresAt > at
    /\ InScope(record, {"own"}) /\ \A column \in OfferStoreColumns : record[column] # Unset

\* The row of a record, checked and perhaps withdrawn since.
RowOf(record, checked, gone) ==
    [ToInsertRow(record) EXCEPT !.checkedAt = checked, !.invalidatedAt = gone]

LEMMA RowOfRecord ==
    ASSUME NEW record, Issuable(record, "tenant"), NEW checked, NEW gone
    PROVE  LET row == RowOf(record, checked, gone)
           IN  /\ row = [column \in OfferColumns |-> row[column]]
               /\ row.id = record.id /\ row.net = record.net.amount /\ row.sell = record.sell.amount
               /\ row.currency = record.currency /\ row.expiresAt = record.expiresAt
               /\ row.policySnapshot = record.policySnapshot /\ row.breakdown = record.breakdown
               /\ row.supplierOfferToken = record.supplierOfferToken
               /\ row.canonicalPropertyId = record.canonicalPropertyId
               /\ row.nationality = record.nationality /\ row.occupancy = record.occupancy
               /\ row.pricingContext = record.pricingContext /\ row.priceHash = record.priceHash
               /\ row.checkedAt = checked /\ row.invalidatedAt = gone
<1>1. record = [column \in OfferColumns |-> record[column]] /\ record.sell.currency = record.currency
  BY DEF Issuable
<1> QED
  BY <1>1 DEF RowOf, ToInsertRow, OfferColumns

\* Read again, it is the record, as checked.
LEMMA ReadOfRow ==
    ASSUME NEW record, Issuable(record, "tenant"), record.invalidatedAt = Unset, NEW checked
    PROVE  Read(RowOf(record, checked, Unset)) = [record EXCEPT !.checkedAt = checked]
<1> DEFINE row == RowOf(record, checked, Unset)
           read == Read(row)
           as == [record EXCEPT !.checkedAt = checked]
<1>1. /\ row = [column \in OfferColumns |-> row[column]]
      /\ row.id = record.id /\ row.net = record.net.amount /\ row.sell = record.sell.amount
      /\ row.currency = record.currency /\ row.expiresAt = record.expiresAt
      /\ row.policySnapshot = record.policySnapshot /\ row.breakdown = record.breakdown
      /\ row.supplierOfferToken = record.supplierOfferToken
      /\ row.canonicalPropertyId = record.canonicalPropertyId
      /\ row.nationality = record.nationality /\ row.occupancy = record.occupancy
      /\ row.pricingContext = record.pricingContext /\ row.priceHash = record.priceHash
      /\ row.checkedAt = checked /\ row.invalidatedAt = Unset
  BY RowOfRecord
<1> HIDE DEF row
<1>2. /\ read = [column \in OfferColumns |-> read[column]]
      /\ read.net = [amount |-> row.net, currency |-> row.currency]
      /\ read.sell = [amount |-> row.sell, currency |-> row.currency]
      /\ read.id = row.id /\ read.expiresAt = row.expiresAt
      /\ read.policySnapshot = row.policySnapshot /\ read.breakdown = row.breakdown
      /\ read.supplierOfferToken = row.supplierOfferToken
      /\ read.canonicalPropertyId = row.canonicalPropertyId
      /\ read.nationality = row.nationality /\ read.occupancy = row.occupancy
      /\ read.pricingContext = row.pricingContext /\ read.checkedAt = row.checkedAt
      /\ read.currency = row.currency /\ read.priceHash = row.priceHash
      /\ read.invalidatedAt = row.invalidatedAt
  BY <1>1, RowRead
<1> HIDE DEF read
<1>3. /\ record = [column \in OfferColumns |-> record[column]]
      /\ record.net = [amount |-> record.net.amount, currency |-> record.currency]
      /\ record.sell = [amount |-> record.sell.amount, currency |-> record.currency]
  BY DEF Issuable
<1>4. /\ as = [column \in OfferColumns |-> as[column]]
      /\ as.net = record.net /\ as.sell = record.sell
      /\ as.id = record.id /\ as.expiresAt = record.expiresAt
      /\ as.policySnapshot = record.policySnapshot /\ as.breakdown = record.breakdown
      /\ as.supplierOfferToken = record.supplierOfferToken
      /\ as.canonicalPropertyId = record.canonicalPropertyId
      /\ as.nationality = record.nationality /\ as.occupancy = record.occupancy
      /\ as.pricingContext = record.pricingContext /\ as.checkedAt = checked
      /\ as.currency = record.currency /\ as.priceHash = record.priceHash
      /\ as.invalidatedAt = record.invalidatedAt
  BY <1>3 DEF OfferColumns
<1> HIDE DEF as
<1>5. /\ read.net = as.net /\ read.sell = as.sell
  BY <1>1, <1>2, <1>3, <1>4
<1>6. /\ read.id = as.id /\ read.expiresAt = as.expiresAt
      /\ read.policySnapshot = as.policySnapshot /\ read.breakdown = as.breakdown
      /\ read.supplierOfferToken = as.supplierOfferToken
      /\ read.canonicalPropertyId = as.canonicalPropertyId
      /\ read.nationality = as.nationality /\ read.occupancy = as.occupancy
      /\ read.pricingContext = as.pricingContext /\ read.checkedAt = as.checkedAt
      /\ read.currency = as.currency /\ read.priceHash = as.priceHash
      /\ read.invalidatedAt = as.invalidatedAt
  BY <1>1, <1>2, <1>4
<1>7. \A column \in OfferColumns : read[column] = as[column]
  BY <1>5, <1>6 DEF OfferColumns
<1>8. read = as
  BY <1>2, <1>4, <1>7
<1> QED
  BY <1>8 DEF read, row, as

\* A good token vouches as long as its row stands, whatever the other rows.
LEMMA TokenIsHonoured ==
    ASSUME NEW record, NEW at \in Int, Sound(record, at), TokenFor(record) # Unset,
           NEW checked, NEW gone, NEW rows, RowOf(record, checked, gone) \in rows,
           \A r \in rows : r = RowOf(record, checked, gone) \/ r.id # record.id
    PROVE  VerifyOfferToken("key", "tenant", rows, TokenFor(record), {"own"}, at)
              = IF gone # Unset THEN Refused("offer_invalidated") ELSE [record EXCEPT !.checkedAt = checked]
<1> DEFINE row == RowOf(record, checked, gone)
           token == TokenFor(record)
           hash == record.priceHash
           issued == ToInsertRow(record)
<1>1. /\ Issuable(record, "tenant") /\ hash.key = "key"
      /\ record.invalidatedAt = Unset /\ record.expiresAt \in Int /\ record.expiresAt > at
      /\ InScope(record, {"own"}) /\ \A column \in OfferStoreColumns : record[column] # Unset
  BY DEF Sound
<1>2. /\ row = [column \in OfferColumns |-> row[column]]
      /\ row.id = record.id /\ row.net = record.net.amount /\ row.sell = record.sell.amount
      /\ row.currency = record.currency /\ row.expiresAt = record.expiresAt
      /\ row.breakdown = record.breakdown
      /\ row.supplierOfferToken = record.supplierOfferToken
      /\ row.canonicalPropertyId = record.canonicalPropertyId
      /\ row.nationality = record.nationality /\ row.occupancy = record.occupancy
      /\ row.pricingContext = record.pricingContext /\ row.priceHash = record.priceHash
      /\ row.invalidatedAt = gone
  BY <1>1, RowOfRecord
<1>3. token.offerId = record.id /\ token.signature = hash
  BY DEF TokenFor
<1>4. /\ issued.id = record.id /\ issued.net = record.net.amount /\ issued.sell = record.sell.amount
      /\ issued.currency = record.currency /\ issued.supplierOfferToken = record.supplierOfferToken
      /\ issued.expiresAt = record.expiresAt /\ issued.priceHash = record.priceHash
  BY <1>1 DEF ToInsertRow, Issuable, OfferColumns
<1>5. [hash EXCEPT !.encoding = "canonical"] = hash
  BY <1>1 DEF Issuable
<1> HIDE DEF row, token, hash, issued
<1>6. VerifyOfferToken("key", "tenant", rows, token, {"own"}, at) = Verified(row, "key", "tenant", token, {"own"}, at)
  <2>1. row \in rows /\ \A r \in rows : r = row \/ token = Unset \/ r.id # token.offerId
    BY <1>3 DEF row
  <2> QED
    BY <1>2, <2>1, VerifyAmong
<1>7. Safe(row.net) /\ Safe(row.sell)
  BY <1>1, <1>2 DEF Issuable
<1>8. InScope(row, {"own"})
  BY <1>1, <1>2 DEF InScope
<1>9. \A column \in OfferStoreColumns : row[column] # Unset
  BY <1>1, <1>2 DEF OfferStoreColumns
<1>10. Intact(row, issued)
  BY <1>2, <1>4, <1>9 DEF Intact
<1>11. VerifyRow("key", "tenant", Read(row), hash)
  <2>1. VerifyRow("key", "tenant", Read(row), [record.priceHash EXCEPT !.encoding = "canonical"])
           <=> /\ Intact(row, ToInsertRow(record))
               /\ "key" = record.priceHash.key /\ "tenant" = "tenant" /\ "canonical" = "canonical"
    BY <1>1, <1>2, OnlyWhatWasSigned
  <2> QED
    BY <1>1, <1>5, <1>10, <2>1 DEF hash, issued
<1>12. token # Unset /\ row.id = token.offerId
  BY <1>2, <1>3 DEF token
<1>13. ~(at >= row.expiresAt)
  BY <1>1, <1>2
<1>14. Verified(row, "key", "tenant", token, {"own"}, at) =
          IF gone # Unset THEN Refused("offer_invalidated") ELSE Read(row)
  BY <1>2, <1>3, <1>7, <1>8, <1>11, <1>12, <1>13 DEF Verified
<1>15. gone = Unset => Read(row) = [record EXCEPT !.checkedAt = checked]
  BY <1>1, ReadOfRow DEF row
<1> QED
  BY <1>6, <1>14, <1>15 DEF token

\* What price and assemblePricedOffer make of a net, as far as it is kept.
PricedAt(priced, net, settlement, vat, policy, at) ==
    /\ priced.net = [amount |-> priced.net.amount, currency |-> priced.currency]
    /\ priced.sell = [amount |-> priced.sell.amount, currency |-> priced.currency]
    /\ priced.policySnapshot = policy /\ priced.expiresAt = at
    /\ priced.breakdown.vat = vat
    /\ priced.breakdown = [fx |-> priced.breakdown.fx, vat |-> priced.breakdown.vat]
    /\ settlement = Unset => priced.breakdown.fx = {} /\ priced.net = net /\ priced.currency = net.currency
    /\ settlement # Unset =>
          /\ priced.breakdown.fx = {[supplierNet |-> net, settlement |-> settlement]}
          /\ priced.currency # net.currency
          /\ settlement.rate.from = net.currency /\ settlement.rate.to = priced.currency
          /\ SettlementAccepted(net, settlement)

LEMMA PricedAs ==
    ASSUME NEW net, net = [amount |-> net.amount, currency |-> net.currency],
           NEW context, NEW rules, NEW settlement, NEW vat, NEW policy, NEW at,
           NEW priced \in PricedOffers(net, context, rules, [settlement |-> settlement, vat |-> vat], policy, at)
    PROVE  PricedAt(priced, net, settlement, vat, policy, at)
<1> DEFINE options == [settlement |-> settlement, vat |-> vat]
           currency == SellCurrency(net, options.settlement)
           fired == SelectRule(rules, context)
           fx == IF options.settlement = Unset THEN {}
                 ELSE {[supplierNet |-> net, settlement |-> options.settlement]}
<1>1. PICK price \in ResolvePrice(net, context, rules, options) :
         priced = [net |-> [amount |-> price.net, currency |-> currency],
                   sell |-> [amount |-> price.sell, currency |-> currency], currency |-> currency,
                   breakdown |-> [fx |-> fx, vat |-> options.vat],
                   policySnapshot |-> policy, expiresAt |-> at]
  BY DEF PricedOffers
<1>2. options.settlement = settlement /\ options.vat = vat
  OBVIOUS
<1>3. price = Resolution(net, context, fired, options) /\ Resolves(net, context, rules, options)
  <2> HIDE DEF options
  <2> QED
    BY DEF ResolvePrice
<1>4. price.net = NetBasis(net, settlement)
  <2>1. price.net = NetBasis(net, options.settlement)
    <3> HIDE DEF options
    <3> QED
      BY <1>3 DEF Resolution
  <2> QED
    BY <1>2, <2>1
<1>5. settlement # Unset => SettlementAccepted(net, settlement)
  <2>1. options.settlement # Unset => SettlementAccepted(net, options.settlement)
    <3> HIDE DEF options
    <3> QED
      BY <1>3 DEF Resolves
  <2> QED
    BY <1>2, <2>1
<1> HIDE DEF options, currency, fx
<1>6. /\ priced.net = [amount |-> price.net, currency |-> currency]
      /\ priced.sell = [amount |-> price.sell, currency |-> currency] /\ priced.currency = currency
      /\ priced.breakdown = [fx |-> fx, vat |-> vat]
      /\ priced.policySnapshot = policy /\ priced.expiresAt = at
  BY <1>1, <1>2
<1>7. CASE settlement = Unset
  <2>1. currency = net.currency /\ fx = {} /\ price.net = net.amount
    BY <1>2, <1>4, <1>7 DEF currency, fx, SellCurrency, NetBasis
  <2> QED
    BY <1>6, <1>7, <2>1 DEF PricedAt
<1>8. CASE settlement # Unset
  <2>1. currency = settlement.currency /\ fx = {[supplierNet |-> net, settlement |-> settlement]}
    BY <1>2, <1>8 DEF currency, fx, SellCurrency
  <2>2. /\ settlement.currency # net.currency /\ settlement.rate.from = net.currency
        /\ settlement.rate.to = settlement.currency
    BY <1>5, <1>8 DEF SettlementAccepted
  <2> QED
    BY <1>5, <1>6, <1>8, <2>1, <2>2 DEF PricedAt
<1> QED
  BY <1>7, <1>8

\* One price at most.
LEMMA OnePrice ==
    ASSUME NEW net, NEW context, NEW rules, NEW options, NEW policy, NEW at, NEW later,
           NEW a \in PricedOffers(net, context, rules, options, policy, at),
           NEW b \in PricedOffers(net, context, rules, options, policy, later)
    PROVE  a.sell = b.sell
<1> DEFINE currency == SellCurrency(net, options.settlement)
<1>1. PICK p \in ResolvePrice(net, context, rules, options) : a.sell = [amount |-> p.sell, currency |-> currency]
  BY DEF PricedOffers
<1>2. PICK q \in ResolvePrice(net, context, rules, options) : b.sell = [amount |-> q.sell, currency |-> currency]
  BY DEF PricedOffers
<1>3. p = q
  BY DEF ResolvePrice
<1> QED
  BY <1>1, <1>2, <1>3

\* The net as the supplier priced it can be read back.
LEMMA SupplierNetIsKept ==
    ASSUME NEW record, NEW priced, NEW net, NEW settlement, NEW vat, NEW policy, NEW at,
           PricedAt(priced, net, settlement, vat, policy, at),
           record.net = priced.net, record.breakdown = priced.breakdown
    PROVE  StoredSupplierNet(record) = net
<1>1. CASE settlement = Unset
  BY <1>1 DEF StoredSupplierNet, PricedAt
<1>2. CASE settlement # Unset
  <2> DEFINE v == [supplierNet |-> net, settlement |-> settlement]
             kept == CHOOSE fx \in record.breakdown.fx : TRUE
  <2>1. record.breakdown.fx = {v}
    BY <1>2 DEF PricedAt
  <2>2. v.supplierNet = net
    OBVIOUS
  <2>3. StoredSupplierNet(record) = IF record.breakdown.fx = {} THEN record.net ELSE kept.supplierNet
    BY DEF StoredSupplierNet
  <2> HIDE DEF v
  <2>4. kept = v
    BY <2>1
  <2> HIDE DEF kept
  <2> QED
    BY <2>1, <2>2, <2>3, <2>4
<1> QED
  BY <1>1, <1>2

\* Min and Max of two.
LEMMA LesserAndGreater ==
    ASSUME NEW m \in Int, NEW n \in Int
    PROVE  /\ Max({m, n}) = IF m < n THEN n ELSE m
           /\ Min({m, n}) = IF m < n THEN m ELSE n
<1>1. Max({m, n}) = CHOOSE x \in {m, n} : \A y \in {m, n} : x >= y
  BY DEF Max
<1>2. Min({m, n}) = CHOOSE x \in {m, n} : \A y \in {m, n} : x =< y
  BY DEF Min
<1>3. \E x \in {m, n} : \A y \in {m, n} : x >= y
  BY m >= n \/ n >= m
<1>4. \E x \in {m, n} : \A y \in {m, n} : x =< y
  BY m >= n \/ n >= m
<1> DEFINE max == Max({m, n})
           min == Min({m, n})
<1>5. max \in {m, n} /\ \A y \in {m, n} : max >= y
  BY <1>1, <1>3
<1>6. min \in {m, n} /\ \A y \in {m, n} : min =< y
  BY <1>2, <1>4
<1> HIDE DEF max, min
<1>7. max = IF m < n THEN n ELSE m
  BY <1>5
<1>8. min = IF m < n THEN m ELSE n
  BY <1>6
<1> QED
  BY <1>7, <1>8 DEF max, min

\* An offer lives a whole number of seconds, at most the cap.
LEMMA OffersExpire ==
    ASSUME NEW configured \in Int, NEW from \in Int
    PROVE  /\ ExpiryFor(configured, from) \in Int /\ ExpiryFor(configured, from) > from
           /\ ExpiryFor(configured, from) - from \in 1..MaxOfferTtlSeconds
<1> DEFINE low == MinOfferTtlSeconds
           cap == MaxOfferTtlSeconds
           raised == Max({low, configured})
           life == Min({cap, raised})
<1>1. low \in Int /\ low > 0 /\ cap \in Int /\ low <= cap
  BY OfferTtlAssumption
<1>2. ExpiryFor(configured, from) = from + life
  BY DEF ExpiryFor
<1> HIDE DEF low, cap
<1>3. raised = IF low < configured THEN configured ELSE low
  BY <1>1, LesserAndGreater
<1>4. raised \in Int /\ raised >= low
  BY <1>1, <1>3
<1> HIDE DEF raised
<1>5. life = IF cap < raised THEN cap ELSE raised
  BY <1>1, <1>4, LesserAndGreater
<1>6. life \in Int /\ life >= 1 /\ life <= cap
  BY <1>1, <1>4, <1>5
<1> HIDE DEF life
<1> QED
  BY <1>1, <1>2, <1>6 DEF cap

\* null is none of the values that a column holds.
UnsetIsApart ==
    /\ Unset \notin Int /\ Unset \notin {"rate", "hotel", "SA"}
    /\ Unset # Context /\ Unset # TokenInput.occupancy
    /\ \A fx, vat : Unset # [fx |-> fx, vat |-> vat]
    /\ \A id, signature : Unset # [offerId |-> id, signature |-> signature]

Filled(text) == text # ""

\* What is handed to buildRecord of a search or a check of one room.
Handed(input, priced, token) ==
    /\ input.offer = priced /\ input.supplierOfferToken = token
    /\ input.canonicalPropertyId = "hotel" /\ input.nationality = "SA"
    /\ input.occupancy = TokenInput.occupancy /\ input.pricingContext = Context

\* A record good at an instant for what was priced.
GoodFor(record, id, priced, net, policy, token, at) ==
    /\ Sound(record, at) /\ record.id = id /\ TokenFor(record) # Unset
    /\ record.net = priced.net /\ record.sell = priced.sell /\ record.breakdown = priced.breakdown
    /\ StoredSupplierNet(record) = net /\ record.policySnapshot = policy
    /\ record.supplierOfferToken = token /\ record.canonicalPropertyId = "hotel"
    /\ record.nationality = "SA" /\ record.occupancy = TokenInput.occupancy
    /\ record.pricingContext = Context
    /\ record.sell.currency = priced.currency /\ Filled(priced.currency)

LEMMA BuiltIsGood ==
    ASSUME UnsetIsApart, NEW priced, NEW net, NEW settlement, NEW vat, NEW policy, NEW expiry \in Int,
           PricedAt(priced, net, settlement, vat, policy, expiry), NEW token, token # Unset,
           NEW input, Handed(input, priced, token), NEW id, NEW checked, NEW at \in Int,
           NEW record \in BuildRecord("key", "tenant", id, input, checked, at)
    PROVE  GoodFor(record, id, priced, net, policy, token, at) /\ record.checkedAt = checked
<1>1. /\ record = [column \in OfferColumns |-> record[column]]
      /\ record.id = id /\ record.net = input.offer.net /\ record.sell = input.offer.sell
      /\ record.policySnapshot = input.offer.policySnapshot
      /\ record.expiresAt = input.offer.expiresAt
      /\ record.supplierOfferToken = input.supplierOfferToken
      /\ record.canonicalPropertyId = input.canonicalPropertyId
      /\ record.nationality = input.nationality /\ record.occupancy = input.occupancy
      /\ record.breakdown = input.offer.breakdown /\ record.pricingContext = input.pricingContext
      /\ record.checkedAt = checked /\ record.currency = input.offer.currency
      /\ record.invalidatedAt = Unset
      /\ ValidMoney(input.offer.sell)
      /\ input.offer.sell.currency = input.offer.currency
      /\ input.offer.expiresAt - at \in 1..MaxOfferTtlSeconds
  <2>1. Made(record, "key", "tenant", id, input, checked, at)
    BY RecordOfOffer
  <2> QED
    BY <2>1 DEF Made
<1>2. /\ priced.net = [amount |-> priced.net.amount, currency |-> priced.currency]
      /\ priced.sell = [amount |-> priced.sell.amount, currency |-> priced.currency]
      /\ priced.policySnapshot = policy /\ priced.expiresAt = expiry
      /\ priced.breakdown = [fx |-> priced.breakdown.fx, vat |-> priced.breakdown.vat]
  BY DEF PricedAt
<1>3. input.offer.net = [amount |-> input.offer.net.amount, currency |-> input.offer.net.currency]
      /\ input.offer.sell = [amount |-> input.offer.sell.amount, currency |-> input.offer.sell.currency]
  BY <1>2 DEF Handed
<1>4. Issuable(record, "tenant") /\ record.priceHash.key = "key"
  BY <1>3, BuiltIsIssuable
<1>5. /\ record.net = priced.net /\ record.sell = priced.sell /\ record.breakdown = priced.breakdown
      /\ record.policySnapshot = policy /\ record.expiresAt = expiry
      /\ record.supplierOfferToken = token /\ record.canonicalPropertyId = "hotel"
      /\ record.nationality = "SA" /\ record.occupancy = TokenInput.occupancy
      /\ record.pricingContext = Context
      /\ record.sell.currency = priced.currency
  BY <1>1, <1>2 DEF Handed
<1>12. Filled(priced.currency)
  BY <1>1, <1>2, Zenon DEF Handed, ValidMoney, Filled
<1>6. record.expiresAt \in Int /\ record.expiresAt > at
  <2>1. expiry - at \in 1..MaxOfferTtlSeconds
    BY <1>1, <1>2 DEF Handed
  <2>2. \A n \in 1..MaxOfferTtlSeconds : n \in Int /\ n > 0
    BY OfferTtlAssumption
  <2>3. expiry - at > 0
    BY <2>1, <2>2
  <2>4. expiry > at
    BY <2>3
  <2> QED
    BY <1>5, <2>4
<1>7. \A column \in OfferStoreColumns : record[column] # Unset
  <2>1. record.breakdown # Unset
    BY <1>2, <1>5 DEF UnsetIsApart
  <2>2. /\ record.supplierOfferToken # Unset /\ record.canonicalPropertyId # Unset
        /\ record.nationality # Unset /\ record.occupancy # Unset /\ record.pricingContext # Unset
    BY <1>5 DEF UnsetIsApart
  <2> QED
    BY <2>1, <2>2 DEF OfferStoreColumns
<1>8. InScope(record, {"own"})
  <2>1. Context.scope["agencyId"] = "own"
    <3>1. Scopes[1] = "agencyId" /\ 1 \in DOMAIN Scopes
      BY DEF Scopes
    <3>2. "agencyId" \in Range(Scopes)
      BY <3>1 DEF Range
    <3> QED
      BY <3>2 DEF Context
  <2> QED
    BY <1>5, <2>1 DEF InScope
<1>9. TokenFor(record) # Unset
  BY DEF TokenFor, UnsetIsApart
<1>10. StoredSupplierNet(record) = net
  BY <1>5, SupplierNetIsKept
<1>11. Sound(record, at)
  BY <1>1, <1>4, <1>6, <1>7, <1>8 DEF Sound
<1> QED
  BY <1>1, <1>5, <1>9, <1>10, <1>11, <1>12 DEF GoodFor

\* The offer that is checked.
LEMMA OfferOfSearch ==
    ASSUME UnsetIsApart, NEW settlement, NEW vat, NEW rules, NEW checked,
           NEW priced \in PricedOffers(Echo.net, Context, rules, [settlement |-> settlement, vat |-> vat],
                                       Echo.policy, Issued + 1),
           NEW record \in BuildRecord("key", "tenant", "o1",
                                      [TokenInput EXCEPT !.offer = priced, !.supplierOfferToken = "rate"],
                                      checked, Issued)
    PROVE  /\ GoodFor(record, "o1", priced, Echo.net, Echo.policy, "rate", Issued)
           /\ PricedAt(priced, Echo.net, settlement, vat, Echo.policy, Issued + 1)
           /\ record.checkedAt = checked
<1> DEFINE input == [TokenInput EXCEPT !.offer = priced, !.supplierOfferToken = "rate"]
           net == Echo.net
           policy == Echo.policy
           expiry == Issued + 1
<1>1. Handed(input, priced, "rate")
  BY DEF Handed, TokenInput
<1>2. net = [amount |-> net.amount, currency |-> net.currency]
  BY DEF Echo, Usd
<1>3. expiry \in Int /\ Issued \in Int /\ "rate" # Unset
  BY DEF Issued, UnsetIsApart
<1> HIDE DEF input, net, policy, expiry
<1>4. priced \in PricedOffers(net, Context, rules, [settlement |-> settlement, vat |-> vat], policy, expiry)
  BY DEF net, policy, expiry
<1>5. PricedAt(priced, net, settlement, vat, policy, expiry)
  BY <1>2, <1>4, PricedAs
<1>6. record \in BuildRecord("key", "tenant", "o1", input, checked, Issued)
  BY DEF input
<1>7. GoodFor(record, "o1", priced, net, policy, "rate", Issued) /\ record.checkedAt = checked
  BY <1>1, <1>3, <1>5, <1>6, BuiltIsGood
<1> QED
  BY <1>5, <1>7 DEF net, policy, expiry

\* The rows a check leaves, in terms of the record.
LEMMA RowsLeft ==
    ASSUME NEW record, Issuable(record, "tenant"), record.invalidatedAt = Unset, NEW at
    PROVE  /\ ToInsertRow(record) = RowOf(record, record.checkedAt, Unset)
           /\ [ToInsertRow(record) EXCEPT !.checkedAt = at] = RowOf(record, at, Unset)
           /\ [ToInsertRow(record) EXCEPT !.invalidatedAt = at] = RowOf(record, record.checkedAt, at)
<1> DEFINE row == ToInsertRow(record)
<1>1. record = [column \in OfferColumns |-> record[column]]
  BY DEF Issuable
<1>2. row = [column \in OfferColumns |-> row[column]] /\ row.checkedAt = record.checkedAt /\ row.invalidatedAt = Unset
  BY <1>1 DEF ToInsertRow, OfferColumns
<1>3. "checkedAt" \in OfferColumns /\ "invalidatedAt" \in OfferColumns
  BY DEF OfferColumns
<1> HIDE DEF row
<1>4. row = [row EXCEPT !.checkedAt = record.checkedAt, !.invalidatedAt = Unset]
  BY <1>2, <1>3
<1>5. [row EXCEPT !.checkedAt = at] = [row EXCEPT !.checkedAt = at, !.invalidatedAt = Unset]
  BY <1>2, <1>3
<1>6. [row EXCEPT !.invalidatedAt = at] = [row EXCEPT !.checkedAt = record.checkedAt, !.invalidatedAt = at]
  BY <1>2, <1>3
<1> QED
  BY <1>4, <1>5, <1>6 DEF RowOf, row

\* Bookable now: the token vouches and was checked at the instant.
LEMMA CheckedIsBookable ==
    ASSUME UnsetIsApart, NEW at \in Int, NEW id, NEW priced, NEW net, NEW policy, NEW token, NEW record,
           GoodFor(record, id, priced, net, policy, token, at),
           NEW rows, RowOf(record, at, Unset) \in rows,
           \A r \in rows : r = RowOf(record, at, Unset) \/ r.id # record.id
    PROVE  LET told == VerifyOfferToken("key", "tenant", rows, TokenFor(record), {"own"}, at)
           IN  /\ told = [record EXCEPT !.checkedAt = at]
               /\ ~IsRefused(RequireBookableOffer(told, at))
<1> DEFINE told == VerifyOfferToken("key", "tenant", rows, TokenFor(record), {"own"}, at)
<1>1. Sound(record, at) /\ TokenFor(record) # Unset
  BY DEF GoodFor
<1>2. told = [record EXCEPT !.checkedAt = at]
  <2>1. told = IF Unset # Unset THEN Refused("offer_invalidated") ELSE [record EXCEPT !.checkedAt = at]
    BY <1>1, TokenIsHonoured
  <2> QED
    BY <2>1
<1>3. DOMAIN told = OfferColumns /\ told.checkedAt = at
  BY <1>1, <1>2 DEF Sound, Issuable, OfferColumns
<1> HIDE DEF told
<1>4. ~IsRefused(told)
  BY <1>3 DEF IsRefused, OfferColumns
<1>5. told.checkedAt # Unset /\ ~(at - told.checkedAt > BookableWindowSeconds)
  BY <1>3, OfferTtlAssumption DEF UnsetIsApart
<1>6. RequireBookableOffer(told, at) = told
  BY <1>4, <1>5 DEF RequireBookableOffer
<1> QED
  BY <1>2, <1>4, <1>6 DEF told

\* A token whose row was withdrawn books nothing.
LEMMA WithdrawnIsRefused ==
    ASSUME NEW at \in Int, at # Unset, NEW record, Sound(record, at), TokenFor(record) # Unset,
           NEW checked, NEW rows, RowOf(record, checked, at) \in rows,
           \A r \in rows : r = RowOf(record, checked, at) \/ r.id # record.id
    PROVE  LET told == VerifyOfferToken("key", "tenant", rows, TokenFor(record), {"own"}, at)
           IN  IsRefused(RequireBookableOffer(told, at))
<1> DEFINE told == VerifyOfferToken("key", "tenant", rows, TokenFor(record), {"own"}, at)
<1>1. told = IF at # Unset THEN Refused("offer_invalidated") ELSE [record EXCEPT !.checkedAt = checked]
  <2> DEFINE gone == at
  <2>1. RowOf(record, checked, gone) \in rows /\ \A r \in rows : r = RowOf(record, checked, gone) \/ r.id # record.id
    OBVIOUS
  <2> HIDE DEF gone
  <2>2. told = IF gone # Unset THEN Refused("offer_invalidated") ELSE [record EXCEPT !.checkedAt = checked]
    BY <2>1, TokenIsHonoured
  <2> QED
    BY <2>2 DEF gone
<1> HIDE DEF told
<1>2. told = Refused("offer_invalidated")
  BY <1>1
<1> QED
  BY <1>2 DEF told, RequireBookableOffer, IsRefused, Refused

\* The verified offer that is checked is the record the search issued.
LEMMA OfferIsTheRecord ==
    ASSUME NEW at \in Int, NEW record, Sound(record, at), TokenFor(record) # Unset
    PROVE  VerifyOfferToken("key", "tenant", {ToInsertRow(record)}, TokenFor(record), {"own"}, at) = record
<1> DEFINE checked == record.checkedAt
           rows == {ToInsertRow(record)}
           told == VerifyOfferToken("key", "tenant", rows, TokenFor(record), {"own"}, at)
<1>1. Issuable(record, "tenant") /\ record.invalidatedAt = Unset
  BY DEF Sound
<1>2. rows = {RowOf(record, checked, Unset)}
  BY <1>1, RowsLeft
<1>3. [record EXCEPT !.checkedAt = record.checkedAt] = record
  BY <1>1 DEF Issuable, OfferColumns
<1> HIDE DEF rows, checked
<1>4. told = IF Unset # Unset THEN Refused("offer_invalidated") ELSE [record EXCEPT !.checkedAt = checked]
  BY <1>2, TokenIsHonoured
<1> QED
  BY <1>3, <1>4 DEF checked, rows

\* Which rates cover a net: none is needed in the currency of the sale, else
\* the offer's own, if it is of that currency.
LEMMA RatesThatCover ==
    ASSUME NEW priced, NEW was, NEW settlement, NEW vat, NEW policy, NEW expiry,
           PricedAt(priced, was, settlement, vat, policy, expiry),
           NEW offer, offer.breakdown = priced.breakdown, offer.sell.currency = priced.currency,
           NEW net, NEW s
    PROVE  s \in CoveringSettlements(offer, net) <=>
              \/ s = Unset /\ net.currency = priced.currency
              \/ /\ settlement # Unset /\ s = settlement
                 /\ net.currency # priced.currency /\ net.currency = was.currency
<1> DEFINE fxs == offer.breakdown.fx
           v == [supplierNet |-> was, settlement |-> settlement]
<1>1. CoveringSettlements(offer, net) =
         IF net.currency = offer.sell.currency THEN {Unset}
         ELSE {t \in {fx.settlement : fx \in fxs} :
                  t.rate.from = net.currency /\ t.rate.to = offer.sell.currency}
  BY DEF CoveringSettlements
<1> HIDE DEF fxs
<1>2. CASE net.currency = priced.currency
  BY <1>1, <1>2
<1>3. CASE net.currency # priced.currency /\ settlement = Unset
  <2>1. fxs = {}
    BY <1>3 DEF PricedAt, fxs
  <2> QED
    BY <1>1, <1>3, <2>1
<1>4. CASE net.currency # priced.currency /\ settlement # Unset
  <2>1. fxs = {v} /\ settlement.rate.from = was.currency /\ settlement.rate.to = priced.currency
    BY <1>4 DEF PricedAt, fxs
  <2>2. v.settlement = settlement
    OBVIOUS
  <2> HIDE DEF v
  <2>3. {fx.settlement : fx \in fxs} = {settlement}
    BY <2>1, <2>2
  <2>4. CoveringSettlements(offer, net) =
           {t \in {settlement} : t.rate.from = net.currency /\ t.rate.to = offer.sell.currency}
    BY <1>1, <1>4, <2>3
  <2> QED
    BY <1>4, <2>1, <2>4
<1> QED
  BY <1>2, <1>3, <1>4

SuccessorInput(offer, answer, priced) ==
    [offer |-> priced, supplierOfferToken |-> answer.supplierOfferToken,
     canonicalPropertyId |-> offer.canonicalPropertyId,
     nationality |-> offer.nationality, occupancy |-> offer.occupancy,
     pricingContext |-> offer.pricingContext]

Repriced(offer, answer, rules, configured, at, s) ==
    PricedOffers(answer.net, offer.pricingContext, rules, [settlement |-> s, vat |-> offer.breakdown.vat],
                 answer.policy, ExpiryFor(configured, at))

LEMMA SuccessorsAre ==
    ASSUME NEW offer, NEW answer, NEW rules, NEW configured, NEW at, NEW next
    PROVE  next \in Successors("key", "tenant", "o2", offer, answer, rules, configured, at) <=>
              \E s \in CoveringSettlements(offer, answer.net) :
              \E priced \in Repriced(offer, answer, rules, configured, at, s) :
                 next \in BuildRecord("key", "tenant", "o2", SuccessorInput(offer, answer, priced), at, at)
<1>1. Successors("key", "tenant", "o2", offer, answer, rules, configured, at) =
         UNION {UNION {BuildRecord("key", "tenant", "o2", SuccessorInput(offer, answer, priced), at, at) :
                          priced \in Repriced(offer, answer, rules, configured, at, s)} :
                s \in CoveringSettlements(offer, answer.net)}
  BY DEF Successors, Repriced, SuccessorInput
<1> QED
  BY <1>1

\* A successor is good for what the supplier answered.
LEMMA SuccessorIsGood ==
    ASSUME UnsetIsApart, NEW offer, NEW id, NEW was, NEW net, NEW policy, NEW token, NEW at \in Int,
           GoodFor(offer, id, was, net, policy, token, at),
           NEW answer, answer.net = [amount |-> answer.net.amount, currency |-> answer.net.currency],
           answer.supplierOfferToken # Unset, NEW rules, NEW configured \in Int, NEW s,
           NEW priced \in Repriced(offer, answer, rules, configured, at, s),
           NEW next \in BuildRecord("key", "tenant", "o2", SuccessorInput(offer, answer, priced), at, at)
    PROVE  /\ GoodFor(next, "o2", priced, answer.net, answer.policy, answer.supplierOfferToken, at)
           /\ next.checkedAt = at
<1> DEFINE input == SuccessorInput(offer, answer, priced)
           theirs == answer.net
           terms == answer.policy
           rotated == answer.supplierOfferToken
           expiry == ExpiryFor(configured, at)
           vat == offer.breakdown.vat
<1>1. expiry \in Int
  BY OffersExpire
<1>2. Handed(input, priced, rotated)
  BY DEF GoodFor, Handed, SuccessorInput
<1>3. /\ theirs = [amount |-> theirs.amount, currency |-> theirs.currency] /\ rotated # Unset
      /\ priced \in PricedOffers(theirs, offer.pricingContext, rules, [settlement |-> s, vat |-> vat], terms, expiry)
      /\ next \in BuildRecord("key", "tenant", "o2", input, at, at)
  BY DEF Repriced
<1> HIDE DEF input, theirs, terms, rotated, expiry, vat
<1>4. PricedAt(priced, theirs, s, vat, terms, expiry)
  BY <1>3, PricedAs
<1>5. GoodFor(next, "o2", priced, theirs, terms, rotated, at) /\ next.checkedAt = at
  BY <1>1, <1>2, <1>3, <1>4, BuiltIsGood
<1> QED
  BY <1>5 DEF theirs, terms, rotated

\* The supplier's answer can be priced at every rate accepted for its currency,
\* and not below zero.
Priceable(answer, rules, settlements, vat) ==
    /\ answer.net = [amount |-> answer.net.amount, currency |-> answer.net.currency]
    /\ Filled(answer.supplierOfferToken) /\ answer.supplierOfferToken # Unset
    /\ \A s \in settlements : s = Unset \/ SettlementAccepted(answer.net, s) =>
          \E price \in ResolvePrice(answer.net, Context, rules, [settlement |-> s, vat |-> vat]) :
             price.net >= 0 /\ price.sell >= 0

\* What can be priced becomes a successor.
LEMMA PricedIsIssued ==
    ASSUME UnsetIsApart, NEW offer, NEW id, NEW was, NEW net, NEW policy, NEW token, NEW at \in Int, at > 0,
           GoodFor(offer, id, was, net, policy, token, at), ValidOccupancy(TokenInput.occupancy),
           NEW answer, Filled(answer.supplierOfferToken), NEW rules, NEW configured \in Int, NEW s,
           Filled(SellCurrency(answer.net, s)),
           NEW price \in ResolvePrice(answer.net, Context, rules, [settlement |-> s, vat |-> offer.breakdown.vat]),
           price.net >= 0, price.sell >= 0
    PROVE  \E priced \in Repriced(offer, answer, rules, configured, at, s) :
              BuildRecord("key", "tenant", "o2", SuccessorInput(offer, answer, priced), at, at) # {}
<1> DEFINE vat == offer.breakdown.vat
           options == [settlement |-> s, vat |-> vat]
           theirs == answer.net
           currency == SellCurrency(theirs, s)
           expiry == ExpiryFor(configured, at)
           fx == IF s = Unset THEN {} ELSE {[supplierNet |-> theirs, settlement |-> s]}
           priced == [net |-> [amount |-> price.net, currency |-> currency],
                      sell |-> [amount |-> price.sell, currency |-> currency], currency |-> currency,
                      breakdown |-> [fx |-> fx, vat |-> vat],
                      policySnapshot |-> answer.policy, expiresAt |-> expiry]
           input == SuccessorInput(offer, answer, priced)
<1>1. options.settlement = s /\ options.vat = vat
  OBVIOUS
<1>12. at \in Int /\ at > 0
  OBVIOUS
<1>13. price.net >= 0 /\ price.sell >= 0 /\ Filled(answer.supplierOfferToken)
  OBVIOUS
<1>2. offer.pricingContext = Context /\ offer.canonicalPropertyId = "hotel" /\ offer.nationality = "SA"
      /\ offer.occupancy = TokenInput.occupancy
  BY DEF GoodFor
<1> HIDE DEF options
<1>3. priced \in Repriced(offer, answer, rules, configured, at, s)
  <2>1. price \in ResolvePrice(theirs, Context, rules, options)
    BY DEF options
  <2>2. priced \in PricedOffers(theirs, Context, rules, options, answer.policy, expiry)
    <3> HIDE DEF theirs, expiry, vat
    <3> QED
      BY <1>1, <2>1 DEF PricedOffers
  <2> QED
    BY <1>2, <2>2 DEF Repriced, options
<1>4. Safe(price.net) /\ Safe(price.sell)
  <2> DEFINE fired == SelectRule(rules, Context)
             made == Resolution(theirs, Context, fired, options)
  <2>1. price = made /\ Resolves(theirs, Context, rules, options)
    BY DEF ResolvePrice, options
  <2>2. Safe(NetBasis(theirs, options.settlement)) /\ Safe(made.sell)
    BY <2>1 DEF Resolves
  <2>3. made.net = NetBasis(theirs, options.settlement)
    BY DEF Resolution
  <2> HIDE DEF made
  <2> QED
    BY <2>1, <2>2, <2>3
<1>5. expiry \in Int /\ expiry - at \in 1..MaxOfferTtlSeconds /\ expiry > 0
  <2>1. expiry \in Int /\ expiry - at \in 1..MaxOfferTtlSeconds /\ expiry > at
    BY OffersExpire
  <2> HIDE DEF expiry
  <2>2. expiry > 0
    BY <1>12, <2>1
  <2> QED
    BY <2>1, <2>2
<1> DEFINE money == input.offer
           claims == [tenantId |-> "tenant", offerId |-> "o2", sell |-> money.sell, net |-> money.net,
                      supplierOfferToken |-> input.supplierOfferToken, expiresAt |-> money.expiresAt]
<1>6. /\ money.net = [amount |-> price.net, currency |-> currency]
      /\ money.sell = [amount |-> price.sell, currency |-> currency] /\ money.currency = currency
      /\ money.expiresAt = expiry /\ input.supplierOfferToken = answer.supplierOfferToken
      /\ input.canonicalPropertyId = "hotel" /\ input.nationality = "SA"
      /\ input.occupancy = TokenInput.occupancy
  BY <1>2 DEF SuccessorInput
<1>7. Filled(currency)
  OBVIOUS
<1> HIDE DEF priced, input, expiry, currency
<1>8. CanonicalOfferClaims(claims) # {}
  <2>1. /\ claims.tenantId = "tenant" /\ claims.supplierOfferToken = answer.supplierOfferToken
        /\ claims.sell.amount = price.sell /\ claims.net.amount = price.net /\ claims.expiresAt = expiry
    BY <1>6
  <2> HIDE DEF claims
  <2>2. claims.sell.amount >= 0 /\ claims.net.amount >= 0 /\ claims.expiresAt > 0
    BY <1>5, <1>13, <2>1
  <2>3. Filled("tenant")
    BY Zenon DEF Filled
  <2>4. "" \notin {claims.tenantId, claims.supplierOfferToken}
    BY <1>13, <2>1, <2>3, Zenon DEF Filled
  <2>5. CanonicalOfferClaims(claims) = {claims}
    BY <2>2, <2>4, Zenon DEF CanonicalOfferClaims
  <2> QED
    BY <2>5
<1>9. SignOfferClaims("key", claims) # {}
  BY <1>8 DEF SignOfferClaims
<1>10. /\ ValidMoney(money.net) /\ ValidMoney(money.sell)
       /\ money.net.currency = money.currency /\ money.sell.currency = money.currency
       /\ "" \notin {input.supplierOfferToken, input.canonicalPropertyId, input.nationality}
       /\ ValidOccupancy(input.occupancy)
       /\ money.expiresAt - at \in 1..MaxOfferTtlSeconds
  <2>1. /\ money.net.amount = price.net /\ money.net.currency = currency
        /\ money.sell.amount = price.sell /\ money.sell.currency = currency
    BY <1>6
  <2>2. ValidMoney(money.net) /\ ValidMoney(money.sell)
    BY <1>4, <1>7, <2>1, Zenon DEF ValidMoney, Filled
  <2> HIDE DEF money
  <2>3. "" \notin {input.supplierOfferToken, input.canonicalPropertyId, input.nationality}
    <3>1. Filled("hotel") /\ Filled("SA")
      BY Zenon DEF Filled
    <3> QED
      BY <1>6, <1>13, <3>1, Zenon DEF Filled
  <2>4. money.expiresAt - at \in 1..MaxOfferTtlSeconds
    BY <1>5, <1>6
  <2> QED
    BY <1>6, <2>1, <2>2, <2>3, <2>4
<1>11. BuildRecord("key", "tenant", "o2", input, at, at) # {}
  <2> DEFINE record == [id |-> "o2", net |-> money.net, sell |-> money.sell,
                   policySnapshot |-> money.policySnapshot, expiresAt |-> money.expiresAt,
                   supplierOfferToken |-> input.supplierOfferToken,
                   canonicalPropertyId |-> input.canonicalPropertyId,
                   nationality |-> input.nationality, occupancy |-> input.occupancy,
                   breakdown |-> money.breakdown, pricingContext |-> input.pricingContext,
                   checkedAt |-> at, currency |-> money.currency, priceHash |-> Unset,
                   invalidatedAt |-> Unset]
  <2>1. ClaimsOf("tenant", record) = claims
    BY DEF ClaimsOf
  <2> DEFINE signatures == SignOfferClaims("key", ClaimsOf("tenant", record))
  <2>2. BuildRecord("key", "tenant", "o2", input, at, at) =
           {[record EXCEPT !.priceHash = signature] : signature \in signatures}
    BY <1>10 DEF BuildRecord
  <2>3. signatures # {}
    BY <1>9, <2>1
  <2> HIDE DEF signatures, record
  <2> QED
    BY <2>2, <2>3
<1> QED
  BY <1>3, <1>11 DEF input

Opened(token, rows, at) == VerifyOfferToken("key", "tenant", rows, token, {"own"}, at)

Books(token, rows, at) == ~IsRefused(RequireBookableOffer(Opened(token, rows, at), at))

\* What a client reads back of a good record.
Reads(told, record, net, policy, token) ==
    /\ told.sell = record.sell /\ told.id = record.id /\ StoredSupplierNet(told) = net
    /\ told.policySnapshot = policy /\ told.supplierOfferToken = token

LEMMA ReadAsGood ==
    ASSUME NEW record, NEW id, NEW priced, NEW net, NEW policy, NEW token, NEW at,
           GoodFor(record, id, priced, net, policy, token, at)
    PROVE  Reads([record EXCEPT !.checkedAt = at], record, net, policy, token)
<1> DEFINE told == [record EXCEPT !.checkedAt = at]
<1>1. /\ told.sell = record.sell /\ told.id = record.id /\ told.net = record.net
      /\ told.breakdown = record.breakdown /\ told.policySnapshot = record.policySnapshot
      /\ told.supplierOfferToken = record.supplierOfferToken
  <2>1. record = [column \in OfferColumns |-> record[column]]
    BY DEF GoodFor, Sound, Issuable
  <2> QED
    BY <2>1 DEF OfferColumns
<1> HIDE DEF told
<1>2. StoredSupplierNet(told) = StoredSupplierNet(record)
  BY <1>1 DEF StoredSupplierNet
<1> QED
  BY <1>1, <1>2 DEF GoodFor, Reads, told

\* A good record, checked now, is bookable and reads as it was priced.
LEMMA GoodIsBookable ==
    ASSUME UnsetIsApart, NEW at \in Int, NEW id, NEW priced, NEW net, NEW policy, NEW token, NEW record,
           GoodFor(record, id, priced, net, policy, token, at),
           NEW rows, RowOf(record, at, Unset) \in rows,
           \A r \in rows : r = RowOf(record, at, Unset) \/ r.id # record.id
    PROVE  /\ Books(TokenFor(record), rows, at)
           /\ Reads(Opened(TokenFor(record), rows, at), record, net, policy, token)
<1>1. /\ Opened(TokenFor(record), rows, at) = [record EXCEPT !.checkedAt = at]
      /\ Books(TokenFor(record), rows, at)
  BY CheckedIsBookable DEF Opened, Books
<1> QED
  BY <1>1, ReadAsGood

\* An offer told unchanged is bookable now.
LEMMA UnchangedIsKept ==
    ASSUME UnsetIsApart, NEW at \in Int, NEW id, NEW priced, NEW net, NEW policy, NEW token, NEW offer,
           GoodFor(offer, id, priced, net, policy, token, at),
           NEW rows, rows = {[ToInsertRow(offer) EXCEPT !.checkedAt = at]}
    PROVE  /\ Books(TokenFor(offer), rows, at)
           /\ Reads(Opened(TokenFor(offer), rows, at), offer, net, policy, token)
<1>1. Issuable(offer, "tenant") /\ offer.invalidatedAt = Unset
  BY DEF GoodFor, Sound
<1>2. rows = {RowOf(offer, at, Unset)}
  BY <1>1, RowsLeft
<1>3. RowOf(offer, at, Unset) \in rows /\ \A r \in rows : r = RowOf(offer, at, Unset) \/ r.id # offer.id
  BY <1>2
<1> QED
  BY <1>3, GoodIsBookable

\* A successor is bookable now, and the offer that it replaces no more.
LEMMA SuccessorReplaces ==
    ASSUME UnsetIsApart, NEW at \in Int, NEW offer, NEW next,
           NEW was, NEW before, NEW terms, NEW old, GoodFor(offer, "o1", was, before, terms, old, at),
           NEW priced, NEW net, NEW policy, NEW token, GoodFor(next, "o2", priced, net, policy, token, at),
           next.checkedAt = at,
           NEW rows, rows = {[ToInsertRow(offer) EXCEPT !.invalidatedAt = at], ToInsertRow(next)}
    PROVE  /\ Books(TokenFor(next), rows, at)
           /\ Reads(Opened(TokenFor(next), rows, at), next, net, policy, token)
           /\ ~Books(TokenFor(offer), rows, at) /\ offer.id # next.id
<1> DEFINE gone == RowOf(offer, offer.checkedAt, at)
           row  == RowOf(next, at, Unset)
           first == offer.checkedAt
<1>1. /\ Issuable(offer, "tenant") /\ offer.invalidatedAt = Unset /\ offer.id = "o1"
      /\ Sound(offer, at) /\ TokenFor(offer) # Unset
      /\ Issuable(next, "tenant") /\ next.invalidatedAt = Unset /\ next.id = "o2"
  BY DEF GoodFor, Sound
<1>2. [ToInsertRow(offer) EXCEPT !.invalidatedAt = at] = gone
  BY <1>1, RowsLeft
<1>3. ToInsertRow(next) = row
  BY <1>1, RowsLeft
<1>4. gone.id = offer.id /\ row.id = next.id
  <2>1. gone.id = offer.id
    BY <1>1, RowOfRecord
  <2>2. row.id = next.id
    BY <1>1, RowOfRecord
  <2> QED
    BY <2>1, <2>2
<1>5. gone = RowOf(offer, first, at)
  OBVIOUS
<1> HIDE DEF gone, row, first
<1>6. rows = {gone, row}
  BY <1>2, <1>3
<1>7. row \in rows /\ (\A r \in rows : r = row \/ r.id # next.id)
  BY <1>1, <1>4, <1>6
<1>8. gone \in rows /\ (\A r \in rows : r = gone \/ r.id # offer.id)
  BY <1>1, <1>4, <1>6
<1>9. /\ Books(TokenFor(next), rows, at)
      /\ Reads(Opened(TokenFor(next), rows, at), next, net, policy, token)
  <2>1. RowOf(next, at, Unset) \in rows /\ \A r \in rows : r = RowOf(next, at, Unset) \/ r.id # next.id
    BY <1>7 DEF row
  <2> QED
    BY <2>1, GoodIsBookable
<1>10. ~Books(TokenFor(offer), rows, at)
  <2>1. RowOf(offer, first, at) \in rows /\ \A r \in rows : r = RowOf(offer, first, at) \/ r.id # offer.id
    BY <1>5, <1>8
  <2>2. at # Unset
    BY DEF UnsetIsApart
  <2>3. IsRefused(RequireBookableOffer(VerifyOfferToken("key", "tenant", rows, TokenFor(offer), {"own"}, at), at))
    BY <1>1, <2>1, <2>2, WithdrawnIsRefused
  <2> QED
    BY <2>3 DEF Books, Opened
<1> QED
  BY <1>1, <1>9, <1>10

SameRate(offer, answer) ==
    answer.net = StoredSupplierNet(offer) /\ answer.policy = offer.policySnapshot

ToldOf(status, record, rows) ==
    [status |-> status, sell |-> record.sell, token |-> TokenFor(record), rows |-> rows]

\* What a check says, one branch at a time: after, the successors there are.
Says(result, offer, answer, after, at) ==
    LET row  == ToInsertRow(offer)
        same == SameRate(offer, answer)
    IN  \/ /\ IsRefused(result)
           /\ \/ IsRefused(answer) \/ answer.nationality # offer.nationality
              \/ answer.property # offer.canonicalPropertyId
        \/ ~IsRefused(answer) /\ IsRefused(result) /\ after = {}
        \/ /\ ~IsRefused(answer) /\ answer.nationality = offer.nationality
           /\ same /\ answer.supplierOfferToken = offer.supplierOfferToken
           /\ result = ToldOf("unchanged", offer, {[row EXCEPT !.checkedAt = at]})
        \/ /\ ~IsRefused(answer) /\ answer.nationality = offer.nationality
           /\ ~(same /\ answer.supplierOfferToken = offer.supplierOfferToken)
           /\ \E next \in after :
                 result = ToldOf(IF same THEN "unchanged" ELSE "price_changed", next,
                                 {[row EXCEPT !.invalidatedAt = at], ToInsertRow(next)})

LEMMA CheckSays ==
    ASSUME NEW offer, NEW answer, NEW rules, NEW configured, NEW at, NEW result,
           result = CheckOffer("key", "tenant", "o2", offer, answer, rules, configured, at)
    PROVE  Says(result, offer, answer,
                Successors("key", "tenant", "o2", offer, answer, rules, configured, at), at)
<1> DEFINE row  == ToInsertRow(offer)
           gone == [row EXCEPT !.invalidatedAt = at]
           kept == {[row EXCEPT !.checkedAt = at]}
           after == Successors("key", "tenant", "o2", offer, answer, rules, configured, at)
           record == CHOOSE r \in after : TRUE
           same == SameRate(offer, answer)
           status == IF same THEN "unchanged" ELSE "price_changed"
           lost == {IF answer.error \in {"sold_out", "price_changed"} THEN gone ELSE row}
           why == IF CoveringSettlements(offer, answer.net) = {} THEN "price_changed" ELSE "internal"
<1>1. result =
         IF IsRefused(answer) THEN [error |-> answer.error, rows |-> lost]
         ELSE IF answer.nationality # offer.nationality \/ answer.property # offer.canonicalPropertyId
         THEN [error |-> "internal", rows |-> {row}]
         ELSE IF same /\ answer.supplierOfferToken = offer.supplierOfferToken
         THEN ToldOf("unchanged", offer, kept)
         ELSE IF after = {} THEN [error |-> why, rows |-> {row}]
         ELSE ToldOf(status, record, {gone, ToInsertRow(record)})
  BY Zenon DEF CheckOffer, IsRefused, ToldOf, SameRate
<1>2. after # {} => record \in after
  OBVIOUS
<1>3. \A kind, rows : IsRefused([error |-> kind, rows |-> rows])
  BY DEF IsRefused
<1> HIDE DEF row, gone, kept, after, record, same, lost, why
<1>4. CASE IsRefused(answer)
  BY <1>1, <1>3, <1>4 DEF Says
<1>5. CASE ~IsRefused(answer) /\ (answer.nationality # offer.nationality \/ answer.property # offer.canonicalPropertyId)
  BY <1>1, <1>3, <1>5 DEF Says
<1>6. CASE /\ ~IsRefused(answer) /\ answer.nationality = offer.nationality
           /\ answer.property = offer.canonicalPropertyId
           /\ same /\ answer.supplierOfferToken = offer.supplierOfferToken
  <2>1. result = ToldOf("unchanged", offer, kept)
    BY <1>1, <1>6
  <2> QED
    BY <1>6, <2>1 DEF Says, same, kept, row
<1>7. CASE /\ ~IsRefused(answer) /\ answer.nationality = offer.nationality
           /\ answer.property = offer.canonicalPropertyId
           /\ ~(same /\ answer.supplierOfferToken = offer.supplierOfferToken) /\ after = {}
  <2>1. result = [error |-> why, rows |-> {row}]
    BY <1>1, <1>7
  <2>2. IsRefused(result)
    BY <1>3, <2>1
  <2> QED
    BY <1>7, <2>2 DEF Says, after
<1>8. CASE /\ ~IsRefused(answer) /\ answer.nationality = offer.nationality
           /\ answer.property = offer.canonicalPropertyId
           /\ ~(same /\ answer.supplierOfferToken = offer.supplierOfferToken) /\ after # {}
  <2>1. result = ToldOf(status, record, {gone, ToInsertRow(record)})
    BY <1>1, <1>8
  <2>2. record \in after
    BY <1>2, <1>8
  <2>3. \E next \in after : result = ToldOf(status, next, {gone, ToInsertRow(next)})
    BY <2>1, <2>2
  <2> QED
    BY <1>8, <2>3 DEF Says, same, after, gone, row
<1> QED
  BY <1>4, <1>5, <1>6, <1>7, <1>8

\* What can be priced in the currency of the sale is: at no rate, or at the
\* offer's own.
LEMMA SomeSuccessor ==
    ASSUME UnsetIsApart, NEW at \in Int, at > 0, NEW offer, NEW priced, NEW was, NEW terms, NEW token,
           GoodFor(offer, "o1", priced, was, terms, token, at),
           NEW settlement, NEW vat, NEW expiry, PricedAt(priced, was, settlement, vat, terms, expiry),
           NEW answer, NEW rules, Priceable(answer, rules, {Unset, settlement}, vat),
           NEW configured \in Int, ValidOccupancy(TokenInput.occupancy),
           \/ answer.net.currency = priced.currency
           \/ settlement # Unset /\ answer.net.currency = was.currency
    PROVE  Successors("key", "tenant", "o2", offer, answer, rules, configured, at) # {}
<1>1. /\ offer.breakdown = priced.breakdown /\ offer.sell.currency = priced.currency
      /\ Filled(priced.currency)
  BY DEF GoodFor
<1>2. offer.breakdown.vat = vat
  BY <1>1 DEF PricedAt
<1>3. Filled(answer.supplierOfferToken)
  BY DEF Priceable
<1>4. ASSUME NEW s, s \in {Unset, settlement}, s = Unset \/ SettlementAccepted(answer.net, s),
             s \in CoveringSettlements(offer, answer.net), Filled(SellCurrency(answer.net, s))
      PROVE  Successors("key", "tenant", "o2", offer, answer, rules, configured, at) # {}
  <2>1. PICK price \in ResolvePrice(answer.net, Context, rules, [settlement |-> s, vat |-> vat]) :
           price.net >= 0 /\ price.sell >= 0
    BY <1>4 DEF Priceable
  <2>2. price \in ResolvePrice(answer.net, Context, rules, [settlement |-> s, vat |-> offer.breakdown.vat])
    BY <1>2, <2>1
  <2>3. PICK p \in Repriced(offer, answer, rules, configured, at, s) :
           BuildRecord("key", "tenant", "o2", SuccessorInput(offer, answer, p), at, at) # {}
    BY <1>3, <1>4, <2>1, <2>2, PricedIsIssued
  <2>4. PICK next : next \in BuildRecord("key", "tenant", "o2", SuccessorInput(offer, answer, p), at, at)
    BY <2>3
  <2>5. next \in Successors("key", "tenant", "o2", offer, answer, rules, configured, at)
    BY <1>4, <2>3, <2>4, SuccessorsAre
  <2> QED
    BY <2>5
<1>5. CASE answer.net.currency = priced.currency
  <2>1. Unset \in CoveringSettlements(offer, answer.net)
    BY <1>1, <1>5, RatesThatCover
  <2>2. SellCurrency(answer.net, Unset) = priced.currency
    BY <1>5 DEF SellCurrency
  <2>3. Filled(SellCurrency(answer.net, Unset))
    BY <1>1, <2>2
  <2> QED
    BY <1>4, <2>1, <2>3
<1>6. CASE answer.net.currency # priced.currency /\ settlement # Unset /\ answer.net.currency = was.currency
  <2>1. settlement \in CoveringSettlements(offer, answer.net)
    BY <1>1, <1>6, RatesThatCover
  <2>2. SettlementAccepted(was, settlement) /\ settlement.rate.to = priced.currency
    BY <1>6 DEF PricedAt
  <2>3. SettlementAccepted(answer.net, settlement)
    BY <1>6, <2>2 DEF SettlementAccepted
  <2>4. SellCurrency(answer.net, settlement) = priced.currency
    BY <1>6, <2>2 DEF SellCurrency, SettlementAccepted
  <2>5. Filled(SellCurrency(answer.net, settlement))
    BY <1>1, <2>4
  <2> QED
    BY <1>4, <2>1, <2>3, <2>5
<1> QED
  BY <1>5, <1>6

\* At the same net, terms and rules the sale is the same.
LEMMA SameRulesSamePrice ==
    ASSUME NEW at, NEW offer, NEW priced, NEW was, NEW terms, NEW token,
           GoodFor(offer, "o1", priced, was, terms, token, at),
           NEW rules, NEW settlement, NEW vat, NEW expiry,
           priced \in PricedOffers(was, Context, rules, [settlement |-> settlement, vat |-> vat], terms, expiry),
           PricedAt(priced, was, settlement, vat, terms, expiry),
           NEW answer, answer.net = was, answer.policy = terms, NEW configured,
           NEW s \in CoveringSettlements(offer, answer.net),
           NEW p \in Repriced(offer, answer, rules, configured, at, s)
    PROVE  p.sell = offer.sell
<1>1. /\ offer.breakdown = priced.breakdown /\ offer.sell.currency = priced.currency
      /\ offer.sell = priced.sell /\ offer.pricingContext = Context
  BY DEF GoodFor
<1>2. offer.breakdown.vat = vat
  BY <1>1 DEF PricedAt
<1>3. s \in CoveringSettlements(offer, was)
  OBVIOUS
<1>4. \/ s = Unset /\ was.currency = priced.currency
      \/ settlement # Unset /\ s = settlement
  BY <1>1, <1>3, RatesThatCover
<1>5. s = settlement
  BY <1>4 DEF PricedAt
<1> DEFINE later == ExpiryFor(configured, at)
<1>6. p \in PricedOffers(was, Context, rules, [settlement |-> settlement, vat |-> vat], terms, later)
  BY <1>1, <1>2, <1>5 DEF Repriced
<1> HIDE DEF later
<1>7. p.sell = priced.sell
  BY <1>6, OnePrice
<1> QED
  BY <1>1, <1>7

InclusiveVat == [mode |-> "inclusive", rateBps |-> 1500]

\* The supplier's answer, if it is not a refusal, can be priced by the rules of today.
Recheckable(question) ==
    /\ UnsetIsApart /\ question.ttl \in Int
    /\ ~IsRefused(question.checked) =>
          Priceable(question.checked, question.rulesNow, {Unset, question.settlement}, InclusiveVat)

\* What UnchangedIsAsOffered asks of one result, of an offer at its search net
\* and terms.
ToldTruly(result, offer, answer, settlement, sameRules, was, terms, at) ==
    LET moved == answer.net # was \/ answer.policy # terms
    IN  IF IsRefused(result)
        THEN \/ ~Books(TokenFor(offer), result.rows, at) \/ IsRefused(answer)
             \/ answer.nationality # "SA" \/ answer.property # "hotel"
             \/ answer.net.currency \notin {was.currency, offer.sell.currency}
             \/ settlement = Unset /\ answer.net.currency # was.currency
        ELSE /\ answer.nationality = "SA"
             /\ Books(result.token, result.rows, at)
             /\ moved => result.status # "unchanged"
             /\ ~moved /\ (answer.supplierOfferToken = offer.supplierOfferToken \/ sameRules) =>
                   result.status = "unchanged" /\ result.sell = offer.sell
             /\ \A told \in {Opened(result.token, result.rows, at)} :
                   /\ told.sell = result.sell /\ StoredSupplierNet(told) = answer.net
                   /\ told.policySnapshot = answer.policy
                   /\ told.supplierOfferToken = answer.supplierOfferToken
                   /\ ~moved /\ answer.supplierOfferToken = offer.supplierOfferToken => told.id = offer.id
                   /\ told.id # offer.id => ~Books(TokenFor(offer), result.rows, at)

\* Two guests in one room may be sold.
LEMMA OneRoomIsValid ==
    ValidOccupancy(TokenInput.occupancy)
<1> DEFINE room == [adults |-> 2, childAges |-> {0, 17}]
           rooms == <<room>>
<1>1. TokenInput.occupancy = rooms
  BY DEF TokenInput
<1>2. Len(rooms) = 1 /\ Range(rooms) = {room}
  BY DEF Range
<1>3. room.adults >= 1 /\ room.childAges \subseteq 0..17
  OBVIOUS
<1> HIDE DEF room, rooms
<1>4. Len(rooms) \in 1..MaxOfferRooms /\ \A r \in Range(rooms) : r.adults >= 1 /\ r.childAges \subseteq 0..17
  BY <1>2, <1>3, OfferRoomsAssumption
<1> QED
  BY <1>1, <1>4 DEF ValidOccupancy

\* Every check tells what its rows are good for.
LEMMA ChecksTellTheTruth ==
    ASSUME UnsetIsApart, NEW at \in Int, at > 0, ValidOccupancy(TokenInput.occupancy),
           NEW offer, NEW priced, NEW was, NEW terms, NEW token,
           GoodFor(offer, "o1", priced, was, terms, token, at),
           NEW rules, NEW settlement, NEW vat, NEW expiry,
           priced \in PricedOffers(was, Context, rules, [settlement |-> settlement, vat |-> vat], terms, expiry),
           PricedAt(priced, was, settlement, vat, terms, expiry),
           NEW answer, NEW rulesNow, NEW configured \in Int,
           ~IsRefused(answer) => Priceable(answer, rulesNow, {Unset, settlement}, vat),
           NEW result, result = CheckOffer("key", "tenant", "o2", offer, answer, rulesNow, configured, at)
    PROVE  ToldTruly(result, offer, answer, settlement, rules = rulesNow, was, terms, at)
<1> DEFINE after == Successors("key", "tenant", "o2", offer, answer, rulesNow, configured, at)
           same == SameRate(offer, answer)
<1>1. /\ offer.nationality = "SA" /\ offer.canonicalPropertyId = "hotel" /\ offer.id = "o1"
      /\ offer.supplierOfferToken = token /\ offer.sell.currency = priced.currency
      /\ offer.policySnapshot = terms /\ StoredSupplierNet(offer) = was
  BY DEF GoodFor
<1>2. same <=> answer.net = was /\ answer.policy = terms
  BY <1>1 DEF SameRate
<1>3. \A status, record, rows : LET it == ToldOf(status, record, rows)
                                IN  /\ ~IsRefused(it) /\ it.status = status /\ it.sell = record.sell
                                    /\ it.token = TokenFor(record) /\ it.rows = rows
  BY DEF ToldOf, IsRefused
<1>4. CASE IsRefused(result) /\ (\/ IsRefused(answer)
                                 \/ answer.nationality # offer.nationality
                                 \/ answer.property # offer.canonicalPropertyId)
  BY <1>1, <1>4 DEF ToldTruly
<1>5. CASE ~IsRefused(answer) /\ IsRefused(result) /\ after = {}
  <2>1. Priceable(answer, rulesNow, {Unset, settlement}, vat)
    BY <1>5
  <2>2. ~(\/ answer.net.currency = priced.currency
          \/ settlement # Unset /\ answer.net.currency = was.currency)
    BY <1>5, <2>1, SomeSuccessor
  <2>3. settlement = Unset => priced.currency = was.currency
    BY DEF PricedAt
  <2>4. \/ answer.net.currency \notin {was.currency, offer.sell.currency}
        \/ settlement = Unset /\ answer.net.currency # was.currency
    BY <1>1, <2>2, <2>3
  <2> QED
    BY <1>5, <2>4 DEF ToldTruly
<1>6. ASSUME ~IsRefused(answer), answer.nationality = offer.nationality, same,
             answer.supplierOfferToken = offer.supplierOfferToken,
             result = ToldOf("unchanged", offer, {[ToInsertRow(offer) EXCEPT !.checkedAt = at]})
      PROVE  ToldTruly(result, offer, answer, settlement, rules = rulesNow, was, terms, at)
  <2> DEFINE rows == {[ToInsertRow(offer) EXCEPT !.checkedAt = at]}
  <2>1. /\ Books(TokenFor(offer), rows, at)
        /\ Reads(Opened(TokenFor(offer), rows, at), offer, was, terms, token)
    BY UnchangedIsKept
  <2>2. /\ ~IsRefused(result) /\ result.status = "unchanged" /\ result.sell = offer.sell
        /\ result.token = TokenFor(offer) /\ result.rows = rows
    BY <1>3, <1>6
  <2> HIDE DEF rows
  <2>3. result.status = "unchanged" /\ ~(answer.net # was \/ answer.policy # terms)
    BY <1>2, <1>6, <2>2
  <2> DEFINE told == Opened(result.token, result.rows, at)
  <2>4. /\ told.sell = offer.sell /\ told.id = offer.id /\ StoredSupplierNet(told) = was
        /\ told.policySnapshot = terms /\ told.supplierOfferToken = token
    BY <2>1, <2>2 DEF Reads
  <2> HIDE DEF told
  <2>5. /\ told.sell = result.sell /\ StoredSupplierNet(told) = answer.net
        /\ told.policySnapshot = answer.policy /\ told.supplierOfferToken = answer.supplierOfferToken
    BY <1>1, <1>2, <1>6, <2>2, <2>4
  <2>6. answer.nationality = "SA" /\ Books(result.token, result.rows, at)
    BY <1>1, <1>6, <2>1, <2>2
  <2> QED
    BY <2>2, <2>3, <2>4, <2>5, <2>6 DEF ToldTruly, told
<1>7. ASSUME ~IsRefused(answer), answer.nationality = offer.nationality,
             ~(same /\ answer.supplierOfferToken = offer.supplierOfferToken), NEW next \in after,
             result = ToldOf(IF same THEN "unchanged" ELSE "price_changed", next,
                             {[ToInsertRow(offer) EXCEPT !.invalidatedAt = at], ToInsertRow(next)})
      PROVE  ToldTruly(result, offer, answer, settlement, rules = rulesNow, was, terms, at)
  <2> DEFINE rows == {[ToInsertRow(offer) EXCEPT !.invalidatedAt = at], ToInsertRow(next)}
  <2>1. PICK s \in CoveringSettlements(offer, answer.net) :
        \E p \in Repriced(offer, answer, rulesNow, configured, at, s) :
           next \in BuildRecord("key", "tenant", "o2", SuccessorInput(offer, answer, p), at, at)
    BY <1>7, SuccessorsAre
  <2>2. PICK p \in Repriced(offer, answer, rulesNow, configured, at, s) :
           next \in BuildRecord("key", "tenant", "o2", SuccessorInput(offer, answer, p), at, at)
    BY <2>1
  <2>3. /\ answer.net = [amount |-> answer.net.amount, currency |-> answer.net.currency]
        /\ answer.supplierOfferToken # Unset
    BY <1>7 DEF Priceable
  <2>4. /\ GoodFor(next, "o2", p, answer.net, answer.policy, answer.supplierOfferToken, at)
        /\ next.checkedAt = at
    BY <2>2, <2>3, SuccessorIsGood
  <2>5. /\ Books(TokenFor(next), rows, at)
        /\ Reads(Opened(TokenFor(next), rows, at), next, answer.net, answer.policy, answer.supplierOfferToken)
        /\ ~Books(TokenFor(offer), rows, at) /\ offer.id # next.id
    BY <2>4, SuccessorReplaces
  <2>6. next.sell = p.sell
    BY <2>4 DEF GoodFor
  <2>7. same /\ rules = rulesNow => next.sell = offer.sell
    <3> SUFFICES ASSUME same, rules = rulesNow PROVE next.sell = offer.sell
      OBVIOUS
    <3>1. answer.net = was /\ answer.policy = terms /\ p \in Repriced(offer, answer, rules, configured, at, s)
      BY <1>2
    <3>2. p.sell = offer.sell
      BY <3>1, SameRulesSamePrice
    <3> QED
      BY <2>6, <3>2
  <2>8. /\ ~IsRefused(result) /\ result.status = (IF same THEN "unchanged" ELSE "price_changed")
        /\ result.sell = next.sell /\ result.token = TokenFor(next) /\ result.rows = rows
    BY <1>3, <1>7
  <2> HIDE DEF rows
  <2>9. result.status = "unchanged" <=> same
    BY <2>8
  <2>10. (result.status = "unchanged") <=> ~(answer.net # was \/ answer.policy # terms)
    BY <1>2, <2>9
  <2> DEFINE told == Opened(result.token, result.rows, at)
  <2>11. /\ told.sell = next.sell /\ told.id = next.id /\ StoredSupplierNet(told) = answer.net
         /\ told.policySnapshot = answer.policy /\ told.supplierOfferToken = answer.supplierOfferToken
    BY <2>5, <2>8 DEF Reads
  <2> HIDE DEF told
  <2>12. /\ Books(result.token, result.rows, at) /\ ~Books(TokenFor(offer), result.rows, at)
         /\ answer.nationality = "SA"
    BY <1>1, <1>7, <2>5, <2>8
  <2>13. ~(~(answer.net # was \/ answer.policy # terms) /\ answer.supplierOfferToken = offer.supplierOfferToken)
    BY <1>2, <1>7
  <2>14. ~(answer.net # was \/ answer.policy # terms) /\ rules = rulesNow => result.sell = offer.sell
    BY <1>2, <2>7, <2>8
  <2> QED
    BY <2>8, <2>10, <2>11, <2>12, <2>13, <2>14 DEF ToldTruly, told
<1>8. Says(result, offer, answer, after, at)
  BY CheckSays
<1> HIDE DEF after, same
<1> QED
  BY <1>4, <1>5, <1>6, <1>7, <1>8 DEF Says, same

(* A client told that an offer is unchanged holds a token good for the net *)
(* and the terms it was shown, whatever rate, net, rules and rotated token *)
(* the supplier's answer meets, and for the price unless a rotated token   *)
(* meets other rules; any other answer that can be priced replaces the     *)
(* offer, and the old token books nothing.                                 *)
THEOREM UnchangedKeepsTheOffer ==
    ASSUME asked.kind = "recheck" => Recheckable(asked)
    PROVE  UnchangedIsAsOffered
<1> DEFINE answer == asked.checked
           settlement == asked.settlement
           was == Echo.net
           terms == Echo.policy
           vat == InclusiveVat
           at == Issued
           expiry == Issued + 1
           later == asked.rulesNow
           rules == asked.rules
           ttl == asked.ttl
           first == asked.checkedAt
           moved == answer.net # was \/ answer.policy # terms
           Anew(offer) == answer.supplierOfferToken # offer.supplierOfferToken /\ rules # later
           Promise(record, offer, result) ==
               IF IsRefused(result)
               THEN \/ ~Stands(TokenFor(record), result.rows) \/ IsRefused(answer)
                    \/ answer.nationality # "SA" \/ answer.property # "hotel"
                    \/ answer.net.currency \notin {RateCurrency, offer.sell.currency}
                    \/ settlement = Unset /\ answer.net.currency # RateCurrency
               ELSE /\ answer.nationality = "SA"
                    /\ Stands(result.token, result.rows)
                    /\ moved => result.status # "unchanged"
                    /\ ~moved /\ ~Anew(offer) => result.status = "unchanged" /\ result.sell = offer.sell
                    /\ \A told \in {Reread(result.token, result.rows)} :
                          /\ told.sell = result.sell /\ StoredSupplierNet(told) = answer.net
                          /\ told.policySnapshot = answer.policy
                          /\ told.supplierOfferToken = answer.supplierOfferToken
                          /\ answer = Echo => told.id = offer.id
                          /\ told.id # offer.id => ~Stands(TokenFor(record), result.rows)
           prices == PricedOffers(was, Context, rules, [settlement |-> settlement, vat |-> vat], terms, expiry)
           Issues(priced) ==
               BuildRecord("key", "tenant", "o1",
                           [TokenInput EXCEPT !.offer = priced, !.supplierOfferToken = "rate"], first, at)
<1>0. ASSUME asked.kind = "recheck" =>
                \A record \in Searched :
                \A offer \in {Reread(TokenFor(record), {ToInsertRow(record)})} :
                \A result \in {Rechecked(offer)} : Promise(record, offer, result)
      PROVE  UnchangedIsAsOffered
  BY <1>0, ZenonT(120) DEF UnchangedIsAsOffered
<1>00. Searched = UNION {Issues(priced) : priced \in prices}
  BY DEF Searched, InclusiveVat
<1> SUFFICES ASSUME asked.kind = "recheck", NEW priced \in prices, NEW record \in Issues(priced),
                    NEW offer, offer = Reread(TokenFor(record), {ToInsertRow(record)}),
                    NEW result, result = Rechecked(offer)
             PROVE  Promise(record, offer, result)
  <2> HIDE DEF Promise, prices, Issues
  <2> QED
    BY <1>0, <1>00
<1>1. UnsetIsApart /\ ttl \in Int /\ at \in Int /\ at > 0
  BY DEF Recheckable, Issued
<1>2. ~IsRefused(answer) => Priceable(answer, later, {Unset, settlement}, vat)
  BY DEF Recheckable
<1>3. /\ GoodFor(record, "o1", priced, was, terms, "rate", at)
      /\ PricedAt(priced, was, settlement, vat, terms, expiry)
  BY <1>1, OfferOfSearch
<1>4. was.currency = RateCurrency
  BY DEF Echo, Usd
<1>5. answer = Echo => answer.net = was /\ answer.policy = terms /\ answer.supplierOfferToken = "rate"
  BY DEF Echo
<1>6. ValidOccupancy(TokenInput.occupancy)
  BY OneRoomIsValid
<1>10. /\ offer = VerifyOfferToken("key", "tenant", {ToInsertRow(record)}, TokenFor(record), {"own"}, at)
       /\ result = CheckOffer("key", "tenant", "o2", offer, answer, later, ttl, at)
  BY DEF Reread, Rechecked
<1>11. \A shown, rows : /\ Reread(shown, rows) = Opened(shown, rows, at)
                        /\ Stands(shown, rows) = Books(shown, rows, at)
  BY DEF Reread, Stands, Opened, Books
<1> HIDE DEF answer, settlement, was, terms, vat, at, expiry, later, rules, ttl, first
<1>7. offer = record
  <2>1. Sound(record, at) /\ TokenFor(record) # Unset
    BY <1>3 DEF GoodFor
  <2> QED
    BY <1>1, <1>10, <2>1, OfferIsTheRecord DEF Opened
<1>8. ToldTruly(result, offer, answer, settlement, rules = later, was, terms, at)
  BY <1>1, <1>2, <1>3, <1>6, <1>7, <1>10, ChecksTellTheTruth, SMTT(30)
<1>9. answer = Echo => answer.supplierOfferToken = offer.supplierOfferToken
  BY <1>3, <1>5, <1>7 DEF GoodFor
<1> QED
  BY <1>4, <1>5, <1>7, <1>8, <1>9, <1>11 DEF ToldTruly
-----------------------------------------------------------------------------
(* Recorded conversations (SandboxReplay).                                 *)

\* Short lists, joined.
LEMMA Joined ==
    ASSUME NEW x, NEW y, NEW z
    PROVE  /\ <<x>> \o <<>> = <<x>>
           /\ <<x>> \o <<y>> = <<x, y>>
           /\ <<>> \o <<x>> = <<x>>
           /\ <<x, y>> \o <<>> = <<x, y>>
           /\ <<x, y>> \o <<z>> = <<x, y, z>>
<1>1. <<x>> \o <<>> = <<x>>
  OBVIOUS
<1>2. <<x>> \o <<y>> = <<x, y>>
  <2> DEFINE s == <<x>>
             t == <<y>>
             both == <<x, y>>
  <2>1. /\ s \in Seq({x, y}) /\ t \in Seq({x, y}) /\ both \in Seq({x, y})
        /\ Len(s) = 1 /\ Len(t) = 1 /\ Len(both) = 2 /\ both[1] = s[1] /\ both[2] = t[1]
    OBVIOUS
  <2> HIDE DEF s, t, both
  <2>2. /\ s \o t \in Seq({x, y}) /\ Len(s \o t) = 2
        /\ (s \o t)[1] = s[1] /\ (s \o t)[2] = t[1]
    BY <2>1, ConcatProperties
  <2>3. s \o t = both
    BY <2>1, <2>2, SeqEqual
  <2> QED
    BY <2>3 DEF s, t, both
<1>3. <<>> \o <<x>> = <<x>>
  OBVIOUS
<1>4. <<x, y>> \o <<>> = <<x, y>>
  OBVIOUS
<1>5. <<x, y>> \o <<z>> = <<x, y, z>>
  <2> DEFINE s == <<x, y>>
             t == <<z>>
             all == <<x, y, z>>
  <2>1. /\ s \in Seq({x, y, z}) /\ t \in Seq({x, y, z}) /\ all \in Seq({x, y, z})
        /\ Len(s) = 2 /\ Len(t) = 1 /\ Len(all) = 3
        /\ all[1] = s[1] /\ all[2] = s[2] /\ all[3] = t[1]
    OBVIOUS
  <2> HIDE DEF s, t, all
  <2>4. /\ s \o t \in Seq({x, y, z}) /\ Len(s \o t) = Len(s) + Len(t)
        /\ \A i \in 1 .. Len(s) + Len(t) : (s \o t)[i] = IF i <= Len(s) THEN s[i] ELSE t[i - Len(s)]
    BY <2>1, ConcatProperties, Zenon
  <2>2. /\ s \o t \in Seq({x, y, z}) /\ Len(s \o t) = 3
        /\ (s \o t)[1] = s[1] /\ (s \o t)[2] = s[2] /\ (s \o t)[3] = t[1]
    BY <2>1, <2>4
  <2>3. s \o t = all
    BY <2>1, <2>2, SeqEqual
  <2> QED
    BY <2>3 DEF s, t, all
<1> QED
  BY <1>1, <1>2, <1>3, <1>4, <1>5

\* The secret travels under a name of its own.
Sayable(c) ==
    /\ c.place \in {"query", "headers", "body"} /\ c.form \in Forms
    /\ c.name \notin VolatileParams \cup {"hotel"}

\* What the fingerprint keeps of a secret.
Kept(c, secret) == IF c.name \in RedactedParams THEN "~" ELSE secret

LEMMA QueryOf ==
    ASSUME ListsKnowTheFields, NEW c, Sayable(c),
           NEW path, NEW secret, NEW hotel, NEW clock
    PROVE  NormalizeUrl(Request(c, path, secret, hotel, clock).query) =
              {<<"timestamp", 1, "~">>}
                 \cup IF c.place = "query" THEN {<<c.name, 1, Kept(c, secret)>>} ELSE {}
<1> DEFINE query == Request(c, path, secret, hotel, clock).query
           normal == Blanked(query, VolatileNames, "~")
           Place(i) == Cardinality({j \in 1..i : normal[j].name = normal[i].name})
<1>1. /\ "timestamp" \in VolatileNames /\ c.name # "timestamp"
      /\ c.name \in VolatileNames <=> c.name \in RedactedParams
  BY DEF ListsKnowTheFields, Sayable, VolatileNames
<1>2. NormalizeUrl(query) = {<<normal[i].name, Place(i), normal[i].value>> : i \in DOMAIN normal}
  BY DEF NormalizeUrl
<1>3. CASE c.place = "query"
  <2>1. query = <<Field("timestamp", clock), Field(c.name, secret)>>
    BY <1>3, Joined DEF Request
  <2> HIDE DEF query
  <2>2. /\ DOMAIN normal = 1..2
        /\ normal[1] = Field("timestamp", "~") /\ normal[2] = Field(c.name, Kept(c, secret))
    BY <1>1, <2>1 DEF Blanked, Field, Kept
  <2> HIDE DEF normal
  <2>3. /\ normal[1].name = "timestamp" /\ normal[1].value = "~"
        /\ normal[2].name = c.name /\ normal[2].value = Kept(c, secret)
    BY <2>2 DEF Field
  <2>4. Place(1) = 1 /\ Place(2) = 1
    <3>1. /\ {j \in 1..1 : normal[j].name = normal[1].name} = {1}
          /\ {j \in 1..2 : normal[j].name = normal[2].name} = {2}
      BY <1>1, <2>3
    <3> QED
      BY <3>1, FS_Singleton
  <2> HIDE DEF Place
  <2>5. NormalizeUrl(query) = {<<normal[1].name, Place(1), normal[1].value>>,
                               <<normal[2].name, Place(2), normal[2].value>>}
    <3>1. DOMAIN normal = {1, 2}
      BY <2>2
    <3> QED
      BY <1>2, <3>1
  <2> QED
    BY <1>3, <2>3, <2>4, <2>5 DEF query
<1>4. CASE c.place # "query"
  <2>1. query = <<Field("timestamp", clock)>>
    BY <1>4, Joined DEF Request
  <2> HIDE DEF query
  <2>2. DOMAIN normal = {1} /\ normal[1] = Field("timestamp", "~")
    BY <1>1, <2>1 DEF Blanked, Field
  <2> HIDE DEF normal
  <2>3. normal[1].name = "timestamp" /\ normal[1].value = "~"
    BY <2>2 DEF Field
  <2>4. Place(1) = 1
    <3>1. {j \in 1..1 : normal[j].name = normal[1].name} = {1}
      BY <2>3
    <3> QED
      BY <3>1, FS_Singleton
  <2> HIDE DEF Place
  <2>5. NormalizeUrl(query) = {<<normal[1].name, Place(1), normal[1].value>>}
    BY <1>2, <2>2
  <2> QED
    BY <1>4, <2>3, <2>4, <2>5 DEF query
<1> QED
  BY <1>3, <1>4

\* What the hash sees of a body.
Canonical(c, secret, hotel) ==
    LET clock == Field("nonce", "~")
        kept  == Field(c.name, Kept(c, secret))
        asks  == Field("hotel", hotel)
    IN  CASE c.form = "json" ->
                [keys |-> {clock, asks} \cup IF c.place = "body" THEN {kept} ELSE {}, text |-> <<>>]
          [] c.form = "xml" ->
                [keys |-> {}, text |-> IF c.place = "body" THEN <<clock, asks, kept>> ELSE <<clock, asks>>]
          [] c.form = "urlencoded" ->
                [keys |-> {}, text |-> IF c.place = "body" THEN <<asks, Field(c.name, secret)>> ELSE <<asks>>]

LEMMA BodyOf ==
    ASSUME ListsKnowTheFields, NEW c, Sayable(c),
           NEW path, NEW secret, NEW hotel, NEW clock
    PROVE  CanonicalizeBody(Request(c, path, secret, hotel, clock).body) = Canonical(c, secret, hotel)
<1> DEFINE body == Request(c, path, secret, hotel, clock).body
           normal == Blanked(body.fields, VolatileNames, "~")
           first == Field("nonce", "~")
           asks == Field("hotel", hotel)
           kept == Field(c.name, Kept(c, secret))
<1>1. /\ "nonce" \in VolatileNames /\ "hotel" \notin VolatileNames
      /\ c.name \in VolatileNames <=> c.name \in RedactedParams
  BY DEF ListsKnowTheFields, Sayable, VolatileNames
<1>2. c.form \in {"json", "xml", "urlencoded"}
  BY DEF Sayable, Forms
<1>3. body.form = c.form
  BY DEF Request
<1>4. CASE c.form = "urlencoded"
  <2>1. body.fields = IF c.place = "body" THEN <<asks, Field(c.name, secret)>> ELSE <<asks>>
    BY <1>4, Joined DEF Request
  <2> HIDE DEF body
  <2>2. CanonicalizeBody(body) = [keys |-> {}, text |-> body.fields]
    BY <1>3, <1>4 DEF CanonicalizeBody
  <2>3. Canonical(c, secret, hotel) =
           [keys |-> {}, text |-> IF c.place = "body" THEN <<asks, Field(c.name, secret)>> ELSE <<asks>>]
    BY <1>4 DEF Canonical
  <2> QED
    BY <2>1, <2>2, <2>3 DEF body
<1>5. CASE c.form # "urlencoded" /\ c.place = "body"
  <2>1. body.fields = <<Field("nonce", clock), asks, Field(c.name, secret)>>
    BY <1>5, Joined DEF Request
  <2> HIDE DEF body
  <2>2. /\ normal = [i \in 1..3 |-> normal[i]]
        /\ normal[1] = first /\ normal[2] = asks /\ normal[3] = kept
    BY <1>1, <2>1 DEF Blanked, Field, Kept
  <2> HIDE DEF normal, first, asks, kept
  <2>3. normal = <<first, asks, kept>>
    BY <2>2
  <2>4. {normal[i] : i \in DOMAIN normal} = {first, asks, kept}
    BY <2>3
  <2>5. CanonicalizeBody(body) = IF c.form = "json" THEN [keys |-> {first, asks, kept}, text |-> <<>>]
                                 ELSE [keys |-> {}, text |-> <<first, asks, kept>>]
    <3>1. CASE c.form = "json"
      <4>1. CanonicalizeBody(body) = [keys |-> {normal[i] : i \in DOMAIN normal}, text |-> <<>>]
        BY <1>3, <3>1 DEF CanonicalizeBody, normal
      <4> QED
        BY <2>4, <3>1, <4>1
    <3>2. CASE c.form = "xml"
      <4>1. CanonicalizeBody(body) = [keys |-> {}, text |-> normal]
        BY <1>3, <3>2 DEF CanonicalizeBody, normal
      <4> QED
        BY <2>3, <3>2, <4>1
    <3> QED
      BY <1>2, <1>5, <3>1, <3>2
  <2>6. Canonical(c, secret, hotel) = IF c.form = "json" THEN [keys |-> {first, asks, kept}, text |-> <<>>]
                                      ELSE [keys |-> {}, text |-> <<first, asks, kept>>]
    BY <1>2, <1>5 DEF Canonical, first, asks, kept
  <2> QED
    BY <2>5, <2>6 DEF body
<1>6. CASE c.form # "urlencoded" /\ c.place # "body"
  <2>1. body.fields = <<Field("nonce", clock), asks>>
    BY <1>6, Joined DEF Request
  <2> HIDE DEF body
  <2>2. /\ normal = [i \in 1..2 |-> normal[i]]
        /\ normal[1] = first /\ normal[2] = asks
    BY <1>1, <2>1 DEF Blanked, Field
  <2> HIDE DEF normal, first, asks
  <2>3. normal = <<first, asks>>
    BY <2>2
  <2>4. {normal[i] : i \in DOMAIN normal} = {first, asks}
    BY <2>3
  <2>5. CanonicalizeBody(body) = IF c.form = "json" THEN [keys |-> {first, asks}, text |-> <<>>]
                                 ELSE [keys |-> {}, text |-> <<first, asks>>]
    <3>1. CASE c.form = "json"
      <4>1. CanonicalizeBody(body) = [keys |-> {normal[i] : i \in DOMAIN normal}, text |-> <<>>]
        BY <1>3, <3>1 DEF CanonicalizeBody, normal
      <4> QED
        BY <2>4, <3>1, <4>1
    <3>2. CASE c.form = "xml"
      <4>1. CanonicalizeBody(body) = [keys |-> {}, text |-> normal]
        BY <1>3, <3>2 DEF CanonicalizeBody, normal
      <4> QED
        BY <2>3, <3>2, <4>1
    <3> QED
      BY <1>2, <1>6, <3>1, <3>2
  <2>6. Canonical(c, secret, hotel) = IF c.form = "json" THEN [keys |-> {first, asks}, text |-> <<>>]
                                      ELSE [keys |-> {}, text |-> <<first, asks>>]
    BY <1>2, <1>6 DEF Canonical, first, asks
  <2> QED
    BY <2>5, <2>6 DEF body
<1> QED
  BY <1>4, <1>5, <1>6

\* Two calls of a conversation have one fingerprint if and only if they are to
\* one path, about one hotel and with one secret, or one that may change.
LEMMA SameCall ==
    ASSUME ListsKnowTheFields, NEW c, Sayable(c),
           NEW path, NEW secret, NEW hotel, NEW clock,
           NEW path2, NEW secret2, NEW hotel2, NEW clock2
    PROVE  FingerprintRequest(Request(c, path, secret, hotel, clock))
                = FingerprintRequest(Request(c, path2, secret2, hotel2, clock2))
              <=> path = path2 /\ hotel = hotel2 /\ (Covered(c) \/ secret = secret2)
<1> DEFINE one == Request(c, path, secret, hotel, clock)
           other == Request(c, path2, secret2, hotel2, clock2)
           url(s) == {<<"timestamp", 1, "~">>}
                        \cup IF c.place = "query" THEN {<<c.name, 1, Kept(c, s)>>} ELSE {}
<1>1. /\ NormalizeUrl(one.query) = url(secret) /\ NormalizeUrl(other.query) = url(secret2)
      /\ CanonicalizeBody(one.body) = Canonical(c, secret, hotel)
      /\ CanonicalizeBody(other.body) = Canonical(c, secret2, hotel2)
  BY QueryOf, BodyOf
<1>2. /\ one.method = "POST" /\ one.path = path /\ one.body.form = c.form
      /\ other.method = "POST" /\ other.path = path2 /\ other.body.form = c.form
  BY DEF Request
<1> HIDE DEF one, other
<1>3. FingerprintRequest(one) = FingerprintRequest(other) <=>
         /\ path = path2 /\ url(secret) = url(secret2)
         /\ Canonical(c, secret, hotel) = Canonical(c, secret2, hotel2)
  BY <1>1, <1>2 DEF FingerprintRequest
<1>4. Sayable(c) => c.name # "hotel" /\ c.name # "nonce" /\ c.name # "timestamp"
  BY DEF Sayable, ListsKnowTheFields
<1>5. Kept(c, secret) = Kept(c, secret2) <=> c.name \in RedactedParams \/ secret = secret2
  BY DEF Kept
<1>6. url(secret) = url(secret2) <=> (c.place = "query" => Kept(c, secret) = Kept(c, secret2))
  <2> DEFINE a == <<c.name, 1, Kept(c, secret)>>
             b == <<c.name, 1, Kept(c, secret2)>>
             t == <<"timestamp", 1, "~">>
  <2>1. a = b <=> Kept(c, secret) = Kept(c, secret2)
    OBVIOUS
  <2>2. a # t /\ b # t
    BY <1>4
  <2> HIDE DEF a, b, t
  <2>3. {t} \cup {a} = {t} \cup {b} <=> a = b
    BY <2>2
  <2> QED
    BY <2>1, <2>3 DEF a, b, t
<1>7. Canonical(c, secret, hotel) = Canonical(c, secret2, hotel2) <=>
         /\ hotel = hotel2
         /\ c.place = "body" => \/ secret = secret2
                                \/ c.form # "urlencoded" /\ c.name \in RedactedParams
  <2> DEFINE n == Field("nonce", "~")
             h == Field("hotel", hotel)
             h2 == Field("hotel", hotel2)
             k == Field(c.name, Kept(c, secret))
             k2 == Field(c.name, Kept(c, secret2))
             s == Field(c.name, secret)
             s2 == Field(c.name, secret2)
  <2>1. /\ h = h2 <=> hotel = hotel2
        /\ k = k2 <=> Kept(c, secret) = Kept(c, secret2)
        /\ s = s2 <=> secret = secret2
    BY DEF Field
  <2>2. n # h /\ n # h2 /\ n # k /\ n # k2 /\ h # k /\ h # k2 /\ h2 # k /\ h2 # k2
    BY <1>4 DEF Field
  <2> HIDE DEF n, h, h2, k, k2, s, s2
  <2>3. /\ {n, h} = {n, h2} <=> h = h2
        /\ {n, h} \cup {k} = {n, h2} \cup {k2} <=> h = h2 /\ k = k2
    BY <2>2
  <2>4. /\ <<n, h>> = <<n, h2>> <=> h = h2
        /\ <<n, h, k>> = <<n, h2, k2>> <=> h = h2 /\ k = k2
        /\ <<h, s>> = <<h2, s2>> <=> h = h2 /\ s = s2
        /\ <<h>> = <<h2>> <=> h = h2
    OBVIOUS
  <2>5. c.form \in {"json", "xml", "urlencoded"}
    BY DEF Sayable, Forms
  <2>6. CASE c.form = "json"
    <3>1. /\ Canonical(c, secret, hotel) =
                [keys |-> {n, h} \cup IF c.place = "body" THEN {k} ELSE {}, text |-> <<>>]
          /\ Canonical(c, secret2, hotel2) =
                [keys |-> {n, h2} \cup IF c.place = "body" THEN {k2} ELSE {}, text |-> <<>>]
      BY <2>6 DEF Canonical, n, h, h2, k, k2
    <3>4. \A A, B : [keys |-> A, text |-> <<>>] = [keys |-> B, text |-> <<>>] <=> A = B
      <4> TAKE A, B
      <4>1. ASSUME [keys |-> A, text |-> <<>>] = [keys |-> B, text |-> <<>>] PROVE A = B
        <5>1. [keys |-> A, text |-> <<>>].keys = [keys |-> B, text |-> <<>>].keys
          BY <4>1
        <5> QED
          BY <5>1
      <4> QED
        BY <4>1
    <3>2. CASE c.place = "body"
      <4>1. Canonical(c, secret, hotel) = Canonical(c, secret2, hotel2)
               <=> {n, h} \cup {k} = {n, h2} \cup {k2}
        BY <3>1, <3>2, <3>4
      <4> QED
        BY <1>5, <2>1, <2>3, <2>6, <3>2, <4>1
    <3>3. CASE c.place # "body"
      <4>1. Canonical(c, secret, hotel) = Canonical(c, secret2, hotel2)
               <=> {n, h} \cup {} = {n, h2} \cup {}
        BY <3>1, <3>3, <3>4
      <4>2. {n, h} \cup {} = {n, h} /\ {n, h2} \cup {} = {n, h2}
        OBVIOUS
      <4> QED
        BY <2>1, <2>3, <3>3, <4>1, <4>2
    <3> QED
      BY <3>2, <3>3
  <2>7. CASE c.form = "xml"
    <3>1. /\ Canonical(c, secret, hotel) =
                [keys |-> {}, text |-> IF c.place = "body" THEN <<n, h, k>> ELSE <<n, h>>]
          /\ Canonical(c, secret2, hotel2) =
                [keys |-> {}, text |-> IF c.place = "body" THEN <<n, h2, k2>> ELSE <<n, h2>>]
      BY <2>7 DEF Canonical, n, h, h2, k, k2
    <3>2. CASE c.place = "body"
      BY <1>5, <2>1, <2>4, <2>7, <3>1, <3>2
    <3>3. CASE c.place # "body"
      BY <2>1, <2>4, <2>7, <3>1, <3>3
    <3> QED
      BY <3>2, <3>3
  <2>8. CASE c.form = "urlencoded"
    <3>1. /\ Canonical(c, secret, hotel) =
                [keys |-> {}, text |-> IF c.place = "body" THEN <<h, s>> ELSE <<h>>]
          /\ Canonical(c, secret2, hotel2) =
                [keys |-> {}, text |-> IF c.place = "body" THEN <<h2, s2>> ELSE <<h2>>]
      BY <2>8 DEF Canonical, h, h2, s, s2
    <3>2. CASE c.place = "body"
      BY <2>1, <2>4, <2>8, <3>1, <3>2
    <3>3. CASE c.place # "body"
      BY <2>1, <2>4, <2>8, <3>1, <3>3
    <3> QED
      BY <3>2, <3>3
  <2> QED
    BY <2>5, <2>6, <2>7, <2>8
<1>8. c.place \in {"query", "headers", "body"}
  BY DEF Sayable
<1> HIDE DEF url
<1> QED
  BY <1>3, <1>5, <1>6, <1>7, <1>8 DEF Covered, one, other

\* The raw capture of a call, and the file it becomes.
Capture(request, response) ==
    [schemaVersion |-> SchemaVersion, fingerprint |-> FingerprintRequest(request),
     request |-> request, response |-> response]

File(request, name, value) == SanitizeRecording(Capture(request, Answer200(name, value)))

\* A file keeps the fingerprint of its call; its answer is sanitized.
LEMMA FileIsNamed ==
    ASSUME NEW request, NEW name, NEW value
    PROVE  /\ File(request, name, value).fingerprint = FingerprintRequest(request)
           /\ File(request, name, value).schemaVersion = SchemaVersion
<1> DEFINE capture == Capture(request, Answer200(name, value))
<1>1. /\ capture.fingerprint = FingerprintRequest(request) /\ capture.schemaVersion = SchemaVersion
      /\ DOMAIN capture = {"schemaVersion", "fingerprint", "request", "response"}
  BY DEF Capture
<1>2. File(request, name, value) = SanitizeRecording(capture)
  BY DEF File
<1> HIDE DEF capture
<1>3. /\ SanitizeRecording(capture).fingerprint = capture.fingerprint
      /\ SanitizeRecording(capture).schemaVersion = capture.schemaVersion
  BY <1>1 DEF SanitizeRecording
<1> QED
  BY <1>1, <1>2, <1>3

LEMMA FileAnswers ==
    ASSUME NEW request, NEW name, NEW value
    PROVE  File(request, name, value).response =
              [status |-> 200, headers |-> SanitizeHeaders(Answer200(name, value).headers),
               body |-> SanitizeBody(Answer200(name, value).body)]
<1> DEFINE answer == Answer200(name, value)
           capture == Capture(request, answer)
           clean == [answer EXCEPT !.headers = SanitizeHeaders(answer.headers),
                                   !.body = SanitizeBody(answer.body)]
<1>1. /\ capture.response = answer
      /\ DOMAIN capture = {"schemaVersion", "fingerprint", "request", "response"}
  BY DEF Capture
<1>2. File(request, name, value) = SanitizeRecording(capture)
  BY DEF File
<1>3. answer = [status |-> answer.status, headers |-> answer.headers, body |-> answer.body]
      /\ answer.status = 200
  BY DEF Answer200
<1> HIDE DEF capture, answer
<1>4. SanitizeRecording(capture).response = clean
  BY <1>1 DEF SanitizeRecording
<1>5. clean = [status |-> 200, headers |-> SanitizeHeaders(answer.headers),
               body |-> SanitizeBody(answer.body)]
  <2> DEFINE h == SanitizeHeaders(answer.headers)
             b == SanitizeBody(answer.body)
  <2>1. clean = [answer EXCEPT !.headers = h, !.body = b]
    OBVIOUS
  <2> DEFINE told == [status |-> 200, headers |-> h, body |-> b]
  <2> HIDE DEF h, b, clean
  <2>2. /\ clean = [f \in {"status", "headers", "body"} |-> clean[f]]
        /\ clean["status"] = 200 /\ clean["headers"] = h /\ clean["body"] = b
    BY <1>3, <2>1
  <2>3. /\ told = [f \in {"status", "headers", "body"} |-> told[f]]
        /\ told["status"] = 200 /\ told["headers"] = h /\ told["body"] = b
    OBVIOUS
  <2> HIDE DEF told
  <2>4. clean = told
    BY <2>2, <2>3
  <2> QED
    BY <2>4 DEF told, h, b
<1> QED
  BY <1>2, <1>4, <1>5 DEF answer

LEMMA FieldsOfFile ==
    ASSUME NEW request, NEW name, NEW value
    PROVE  DOMAIN File(request, name, value) = {"schemaVersion", "fingerprint", "request", "response"}
<1> DEFINE capture == Capture(request, Answer200(name, value))
<1>1. DOMAIN capture = {"schemaVersion", "fingerprint", "request", "response"}
  BY DEF Capture
<1>2. File(request, name, value) = SanitizeRecording(capture)
  BY DEF File
<1> HIDE DEF capture
<1>3. DOMAIN SanitizeRecording(capture) = DOMAIN capture
  BY DEF SanitizeRecording
<1> QED
  BY <1>1, <1>2, <1>3

\* The file as a later version reads it.
ReadAs(request, name, value, version) == [File(request, name, value) EXCEPT !.schemaVersion = version]

\* Read back, a file tells of its answer all but what is secret.
LEMMA FileTells ==
    ASSUME ListsKnowTheFields, NEW request, NEW name, NEW value, NEW version
    PROVE  /\ ReadAs(request, name, value, version).fingerprint = FingerprintRequest(request)
           /\ ReadAs(request, name, value, version).schemaVersion = version
           /\ ReconstructResponse(ReadAs(request, name, value, version)).headers =
                 [header \in {"set-cookie"} |-> Redacted]
           /\ Value(ReconstructResponse(ReadAs(request, name, value, version))) =
                 IF name \in RedactedKeys THEN Redacted ELSE value
<1> DEFINE file == File(request, name, value)
           later == ReadAs(request, name, value, version)
           answer == Answer200(name, value)
           clean == [status |-> 200, headers |-> SanitizeHeaders(answer.headers),
                     body |-> SanitizeBody(answer.body)]
<1>1. /\ file.fingerprint = FingerprintRequest(request) /\ file.schemaVersion = SchemaVersion
      /\ file.response = clean
  BY FileIsNamed, FileAnswers
<1>11. DOMAIN file = {"schemaVersion", "fingerprint", "request", "response"}
  BY FieldsOfFile
<1>2. clean.headers = SanitizeHeaders(answer.headers) /\ clean.body = SanitizeBody(answer.body)
  OBVIOUS
<1>3. clean.headers = [header \in {"content-length", "set-cookie"} |->
                          IF header \in RedactedHeaders THEN Redacted ELSE "of this answer"]
  BY <1>2 DEF Answer200, SanitizeHeaders
<1>4. clean.body.fields[1].value = IF name \in RedactedKeys THEN Redacted ELSE value
  <2>1. answer.body = [form |-> "json", fields |-> <<Field(name, value)>>]
    BY DEF Answer200
  <2>2. clean.body.fields = Blanked(<<Field(name, value)>>, RedactedKeys, Redacted)
    BY <1>2, <2>1 DEF SanitizeBody
  <2> QED
    BY <2>2 DEF Blanked, Field
<1>10. clean = [status |-> 200, headers |-> clean.headers, body |-> clean.body]
  OBVIOUS
<1>12. later = [file EXCEPT !.schemaVersion = version]
  BY DEF ReadAs
<1> HIDE DEF clean, file, later
<1>5. /\ later.fingerprint = FingerprintRequest(request) /\ later.schemaVersion = version
      /\ later.response = clean
  BY <1>1, <1>11, <1>12
<1> DEFINE told == ReconstructResponse(later)
<1>6. told = [clean EXCEPT !.headers = Restrict(@, DOMAIN @ \ UnreplayableHeaders)]
  BY <1>5 DEF ReconstructResponse
<1>7. /\ told.headers = Restrict(clean.headers, DOMAIN clean.headers \ UnreplayableHeaders)
      /\ told.body = clean.body
  BY <1>6, <1>10
<1>8. told.headers = [header \in {"set-cookie"} |-> Redacted]
  <2>1. DOMAIN clean.headers \ UnreplayableHeaders = {"set-cookie"}
    BY <1>3 DEF ListsKnowTheFields
  <2>2. clean.headers["set-cookie"] = Redacted
    BY <1>3 DEF ListsKnowTheFields
  <2> QED
    BY <1>7, <2>1, <2>2 DEF Restrict
<1>9. Value(told) = IF name \in RedactedKeys THEN Redacted ELSE value
  BY <1>4, <1>7 DEF Value
<1> QED
  BY <1>5, <1>8, <1>9 DEF later

\* One call, recorded.
LEMMA CallRecorded ==
    ASSUME ListsKnowTheFields, NEW store, NEW request, NEW name, NEW value, NEW ci, NEW injected,
           NEW result \in Record(store, request, Answer200(name, value), ci, injected)
    PROVE  /\ result.store.recordings =
                 {file \in store.recordings : file.fingerprint # FingerprintRequest(request)}
                    \cup {File(request, name, value)}
           /\ Value(result.answer) = value
<1> DEFINE answer == Answer200(name, value)
           capture == Capture(request, answer)
<1>1. result = [store  |-> [captures   |-> WriteRecordingFile(store.captures, capture),
                            recordings |-> WriteRecordingFile(store.recordings, File(request, name, value))],
                answer |-> ReconstructResponse(capture)]
  BY DEF Record, Capture, File
<1>2. result.store.recordings = WriteRecordingFile(store.recordings, File(request, name, value))
  BY <1>1
<1>3. File(request, name, value).fingerprint = FingerprintRequest(request)
  BY FileIsNamed
<1>4. Value(result.answer) = value
  <2>1. capture.response = answer
    BY DEF Capture
  <2>2. answer = [status |-> 200, headers |-> answer.headers,
                  body |-> [form |-> "json", fields |-> <<Field(name, value)>>]]
    BY DEF Answer200
  <2> HIDE DEF answer, capture
  <2>3. result.answer.body = [form |-> "json", fields |-> <<Field(name, value)>>]
    BY <1>1, <2>1, <2>2 DEF ReconstructResponse
  <2> QED
    BY <2>3 DEF Value, Field
<1> QED
  BY <1>2, <1>3, <1>4 DEF WriteRecordingFile

\* The files of a conversation: its login and the last it was told of rooms.
LEMMA FilesOfConversation ==
    ASSUME ListsKnowTheFields, NEW q, Sayable(q.conversation), NEW result \in Recorded(q)
    PROVE  result.store.recordings =
              {File(Login(q.conversation, "old"), q.conversation.name, "token"),
               File(Rooms(q.conversation, "token", "h1", "3"), "price",
                    IF q.drifts THEN "second" ELSE "first")}
<1> DEFINE c == q.conversation
           last == IF q.drifts THEN "second" ELSE "first"
           empty == [captures |-> {}, recordings |-> {}]
           Call(store, request, name, value) ==
               Record(store, request, Answer200(name, value), q.ci, q.injected)
           Twice(store, token) ==
               UNION {Call(once.store, Rooms(c, token, "h1", "3"), "price", last) :
                         once \in Call(store, Rooms(c, token, "h1", "2"), "price", "first")}
<1>1. Recorded(q) = UNION {Twice(login.store, Value(login.answer)) :
                              login \in Call(empty, Login(c, "old"), c.name, "token")}
  BY DEF Recorded
<1>2. PICK login \in Call(empty, Login(c, "old"), c.name, "token") :
               result \in Twice(login.store, Value(login.answer))
  BY <1>1
<1>3. login.store.recordings = {File(Login(c, "old"), c.name, "token")} /\ Value(login.answer) = "token"
  <2>1. /\ login.store.recordings =
               {file \in empty.recordings : file.fingerprint # FingerprintRequest(Login(c, "old"))}
                  \cup {File(Login(c, "old"), c.name, "token")}
        /\ Value(login.answer) = "token"
    BY <1>2, CallRecorded
  <2> QED
    BY <2>1
<1> DEFINE first == Rooms(c, "token", "h1", "2")
           second == Rooms(c, "token", "h1", "3")
           f1 == File(Login(c, "old"), c.name, "token")
           f2 == File(first, "price", "first")
           f3 == File(second, "price", last)
<1>4. PICK once \in Call(login.store, first, "price", "first") :
               result \in Call(once.store, second, "price", last)
  BY <1>2, <1>3
<1>5. /\ once.store.recordings =
            {file \in login.store.recordings : file.fingerprint # FingerprintRequest(first)} \cup {f2}
      /\ result.store.recordings =
            {file \in once.store.recordings : file.fingerprint # FingerprintRequest(second)} \cup {f3}
  <2> HIDE DEF first, second, last
  <2> QED
    BY <1>4, CallRecorded
<1>6. /\ f1.fingerprint = FingerprintRequest(Login(c, "old"))
      /\ f2.fingerprint = FingerprintRequest(first)
  BY FileIsNamed
<1>7. /\ FingerprintRequest(Login(c, "old")) # FingerprintRequest(second)
      /\ FingerprintRequest(Login(c, "old")) # FingerprintRequest(first)
      /\ FingerprintRequest(first) = FingerprintRequest(second)
  BY SameCall DEF Login, Rooms
<1> HIDE DEF f1, f2, f3, first, second
<1>8. once.store.recordings = {f1, f2}
  BY <1>3, <1>5, <1>6, <1>7 DEF f1
<1>9. result.store.recordings = {f1, f3}
  BY <1>5, <1>6, <1>7, <1>8
<1> QED
  BY <1>9 DEF f1, f3, second

(* A conversation with a supplier that is recorded and had again, whatever *)
(* the lists of volatile and redacted names, the name its secret travels   *)
(* under, the credential, the hotel and the clock: each call finds the     *)
(* recording of that call or none, the last if there were two, and finds   *)
(* it whenever the secret is the recorded one or travels where the         *)
(* fingerprint does not see it.                                            *)
THEOREM ReplaysAsRecorded ==
    ASSUME asked.kind = "replay" => Sayable(asked.conversation)
    PROVE  ReplayTellsWhatWasRecorded
<1> USE ListsAssumption
<1> SUFFICES ASSUME asked.kind = "replay", NEW result \in Recorded(asked)
             PROVE  ReplayTellsWhatWasRecorded!2!(result)
  BY DEF ReplayTellsWhatWasRecorded
<1> DEFINE c == asked.conversation
           version == asked.schemaVersion
           secret == IF asked.rotated THEN "new" ELSE "old"
           last == IF asked.drifts THEN "second" ELSE "first"
           hotel == IF asked.otherHotel THEN "h2" ELSE "h1"
           loggedIn == Login(c, "old")
           roomsAsked == Rooms(c, "token", "h1", "3")
           f1 == ReadAs(loggedIn, c.name, "token", version)
           f2 == ReadAs(roomsAsked, "price", last, version)
           files == FilesNow(result)
           login == LoginNow(result)
           rooms(token, clock) == Replay(files, Rooms(c, token, hotel, clock))
<1>1. Sayable(c)
  OBVIOUS
<1>2. files = {f1, f2}
  <2>1. result.store.recordings = {File(loggedIn, c.name, "token"), File(roomsAsked, "price", last)}
    BY <1>1, FilesOfConversation
  <2> QED
    BY <2>1 DEF ReadAs, FilesNow
<1>20. login = Replay(files, Login(c, secret))
  BY DEF LoginNow
<1>3. /\ f1.fingerprint = FingerprintRequest(loggedIn) /\ f1.schemaVersion = version
      /\ ReconstructResponse(f1).headers = [header \in {"set-cookie"} |-> Redacted]
      /\ Value(ReconstructResponse(f1)) = IF c.name \in RedactedKeys THEN Redacted ELSE "token"
  BY FileTells
<1>4. /\ f2.fingerprint = FingerprintRequest(roomsAsked) /\ f2.schemaVersion = version
      /\ Value(ReconstructResponse(f2)) = IF "price" \in RedactedKeys THEN Redacted ELSE last
  BY FileTells
<1> HIDE DEF f1, f2, files, login
<1>5. \A path, s, h, clock :
         Replay(files, Request(c, path, s, h, clock)) =
            {ReconstructResponse(f) :
                f \in {g \in {f1, f2} : /\ g.fingerprint = FingerprintRequest(Request(c, path, s, h, clock))
                                        /\ version = SchemaVersion}}
  <2> TAKE path, s, h, clock
  <2> DEFINE request == Request(c, path, s, h, clock)
  <2>1. Text(request.body)
    <3>1. request.body.form = c.form
      BY DEF Request
    <3> QED
      BY <1>1, <3>1 DEF Text, Sayable, Forms
  <2> HIDE DEF request
  <2>2. {g \in {f1, f2} : /\ Text(request.body) /\ g.fingerprint = FingerprintRequest(request)
                          /\ g.schemaVersion = SchemaVersion}
           = {g \in {f1, f2} : g.fingerprint = FingerprintRequest(request) /\ version = SchemaVersion}
    BY <1>3, <1>4, <2>1
  <2>3. Replay(files, request) =
           {ReconstructResponse(f) :
               f \in {g \in {f1, f2} : g.fingerprint = FingerprintRequest(request) /\ version = SchemaVersion}}
    BY <1>2, <2>2, Zenon DEF Replay
  <2> QED
    BY <2>3 DEF request
<1>6. /\ FingerprintRequest(loggedIn) = FingerprintRequest(Login(c, secret))
            <=> Covered(c) \/ ~asked.rotated
      /\ FingerprintRequest(roomsAsked) # FingerprintRequest(Login(c, secret))
  <2>1. FingerprintRequest(loggedIn) = FingerprintRequest(Login(c, secret))
            <=> Covered(c) \/ "old" = secret
    BY <1>1, SameCall DEF Login
  <2>2. FingerprintRequest(roomsAsked) # FingerprintRequest(Login(c, secret))
    BY <1>1, SameCall DEF Login, Rooms
  <2> QED
    BY <2>1, <2>2
<1>7. \A token, clock :
         /\ FingerprintRequest(loggedIn) # FingerprintRequest(Rooms(c, token, hotel, clock))
         /\ FingerprintRequest(roomsAsked) = FingerprintRequest(Rooms(c, token, hotel, clock))
               <=> ~asked.otherHotel /\ (Covered(c) \/ token = "token")
  <2> TAKE token, clock
  <2>1. FingerprintRequest(loggedIn) # FingerprintRequest(Rooms(c, token, hotel, clock))
    BY <1>1, SameCall DEF Login, Rooms
  <2>2. FingerprintRequest(roomsAsked) = FingerprintRequest(Rooms(c, token, hotel, clock))
            <=> "h1" = hotel /\ (Covered(c) \/ "token" = token)
    BY <1>1, SameCall DEF Rooms
  <2> QED
    BY <2>1, <2>2
<1> HIDE DEF loggedIn, roomsAsked, secret, hotel, last
<1>8. version # SchemaVersion => login = {}
  BY <1>5, <1>20 DEF Login
<1>9. ASSUME version = SchemaVersion
      PROVE  login = IF Covered(c) \/ ~asked.rotated THEN {ReconstructResponse(f1)} ELSE {}
  <2>1. login = {ReconstructResponse(f) :
                    f \in {g \in {f1, f2} : g.fingerprint = FingerprintRequest(Login(c, secret))}}
    BY <1>5, <1>9, <1>20 DEF Login
  <2> QED
    BY <1>3, <1>4, <1>6, <2>1
<1>10. ASSUME version = SchemaVersion, NEW token, NEW clock
       PROVE  rooms(token, clock) = IF ~asked.otherHotel /\ (Covered(c) \/ token = "token")
                                    THEN {ReconstructResponse(f2)} ELSE {}
  <2>1. rooms(token, clock) =
           {ReconstructResponse(f) :
               f \in {g \in {f1, f2} : g.fingerprint = FingerprintRequest(Rooms(c, token, hotel, clock))}}
    BY <1>5, <1>10 DEF Rooms
  <2> QED
    BY <1>3, <1>4, <1>7, <2>1
<1>11. Value(ReconstructResponse(f2)) = last
  BY <1>4 DEF ListsKnowTheFields
<1> HIDE DEF rooms, c, version
<1>12. IF version # SchemaVersion THEN login = {}
       ELSE /\ Covered(c) \/ ~asked.rotated => login # {}
            /\ \A response \in login :
                  /\ response.headers = [header \in {"set-cookie"} |-> Redacted]
                  /\ \A clock \in {"2", "3"} :
                        /\ {Value(answer) : answer \in rooms(Value(response), clock)} \subseteq {last}
                        /\ asked.otherHotel => rooms(Value(response), clock) = {}
                        /\ ~asked.otherHotel /\ (Covered(c) \/ Value(response) = "token") =>
                              rooms(Value(response), clock) # {}
  <2>1. CASE version # SchemaVersion
    BY <1>8, <2>1
  <2>2. CASE version = SchemaVersion
    <3>1. Covered(c) \/ ~asked.rotated => login # {}
      BY <1>9, <2>2
    <3>2. ASSUME NEW response \in login
          PROVE  response.headers = [header \in {"set-cookie"} |-> Redacted]
      BY <1>3, <1>9, <2>2
    <3>3. ASSUME NEW token, NEW clock
          PROVE  /\ {Value(answer) : answer \in rooms(token, clock)} \subseteq {last}
                 /\ asked.otherHotel => rooms(token, clock) = {}
                 /\ ~asked.otherHotel /\ (Covered(c) \/ token = "token") => rooms(token, clock) # {}
      BY <1>10, <1>11, <2>2
    <3> QED
      BY <2>2, <3>1, <3>2, <3>3
  <2> QED
    BY <2>1, <2>2
<1> QED
  BY <1>12 DEF login, rooms, c, version, files, last, hotel, secret
-----------------------------------------------------------------------------
(* The configuration of the two processes.                                 *)

\* What the registry makes of NODE_ENV, and the configurations of it.
LEMMA RegistryAndConfig ==
    ASSUME NEW env, env.nodeEnv \in NodeEnvs \cup {"unset"}
    PROVE  /\ Registry(env).mode = "live" <=> NodeEnvOf(env) = "production"
           /\ Registry(env).mode # "live" => NodeEnvOf(env) = env.nodeEnv
           /\ Registry(env).mode = "record" <=> env.nodeEnv = "development"
           /\ Registry(env).mode = "record" /\ Registry(env).built => ~env.ci
<1>1. /\ Registry(env).mode = TransportModeForEnv(ResolveNodeEnv(env))
      /\ Registry(env).built <=> ~(Registry(env).mode = "record" /\ env.ci)
  BY DEF Registry, CreateTboTransport
<1>2. CASE env.nodeEnv = "development"
  BY <1>1, <1>2 DEF NodeEnvOf, ResolveNodeEnv, TransportModeForEnv, NodeEnvs
<1>3. CASE env.nodeEnv = "test"
  BY <1>1, <1>3 DEF NodeEnvOf, ResolveNodeEnv, TransportModeForEnv, NodeEnvs
<1>4. CASE env.nodeEnv = "production"
  BY <1>1, <1>4 DEF NodeEnvOf, ResolveNodeEnv, TransportModeForEnv, NodeEnvs
<1>5. CASE env.nodeEnv = "unset"
  BY <1>1, <1>5 DEF NodeEnvOf, ResolveNodeEnv, TransportModeForEnv, NodeEnvs
<1> QED
  BY <1>2, <1>3, <1>4, <1>5 DEF NodeEnvs

\* What a started process does, whichever it is.
LEMMA ProcessHonest ==
    ASSUME NEW env, env.nodeEnv \in NodeEnvs \cup {"unset"}, NEW p,
           p.nodeEnv = NodeEnvOf(env), p.mode = Registry(env).mode, Registry(env).built,
           p.source = IF NodeEnvOf(env) = "development" THEN "env" ELSE "unbound"
    PROVE  /\ p.mode # "live" => p.nodeEnv = env.nodeEnv
           /\ p.nodeEnv = "production" => p.mode = "live" /\ p.source = "unbound"
           /\ Hop(env, p, "unknown") = "no_adapter"
           /\ Hop(env, p, TboSupplierCode) # "no_credentials" =>
                 /\ Hop(env, p, TboSupplierCode) = "record"
                 /\ env.nodeEnv = "development" /\ ~env.ci
<1>1. Hop(env, p, "unknown") = "no_adapter"
  BY DEF Hop, HotelAdapter, TboSupplierCode
<1>2. Hop(env, p, TboSupplierCode) # "no_credentials" =>
         Hop(env, p, TboSupplierCode) = p.mode /\ env.nodeEnv = "development"
  BY DEF Hop, HotelAdapter, CredentialsFor
<1> QED
  BY <1>1, <1>2, RegistryAndConfig

\* A block that is whole is whole in its part; one that is absent is absent.
LEMMA BlockParts ==
    ASSUME NEW env
    PROVE  /\ Block(env, S3Keys \cup MailKeys) = "on" => Block(env, S3Keys) = "on"
           /\ Block(env, S3Keys \cup MailKeys) = "off" => Block(env, S3Keys) = "off"
<1>1. "S3_BUCKET" \in S3Keys
  BY DEF S3Keys
<1> QED
  BY <1>1 DEF Block, Missing

\* One environment, two processes, whatever is set, missing, empty or malformed:
\* a worker that mails vouchers stands beside an api that serves them, no
\* process replays or records in production, and none falls back on a supplier
\* it does not have (loadApiConfig, loadWorkerConfig, createTboTransport).
THEOREM ProcessesAgree == DeploymentsAgree
<1> SUFFICES ASSUME asked.kind = "environment" PROVE DeploymentsAgree
  BY DEF DeploymentsAgree
<1> DEFINE api    == Api(asked)
           worker == Worker(asked)
           s3     == Block(asked, S3Keys)
           both   == Block(asked, S3Keys \cup MailKeys)
<1>1. \A p \in {api, worker} :
         /\ p.nodeEnv = NodeEnvOf(asked) /\ p.mode = Registry(asked).mode
         /\ p.source = IF NodeEnvOf(asked) = "development" THEN "env" ELSE "unbound"
  BY DEF Api, Worker, Process, LoadApiConfig, LoadWorkerConfig, Config, BoundSource
<1>2. (api.documents <=> s3 = "on") /\ (worker.documents <=> both = "on")
  BY DEF Api, Worker, Process, LoadApiConfig, LoadWorkerConfig, Config, ResolveDocumentsConfig,
         ResolveDocumentsDelivery
<1>3. /\ api.boots <=> /\ Missing(asked, ApiNeeds) = {} /\ ~Malformed(asked, ApiNeeds \cup S3Keys)
                       /\ s3 # "partial" /\ Registry(asked).built
      /\ worker.boots <=> /\ Missing(asked, WorkerNeeds) = {}
                          /\ ~Malformed(asked, WorkerNeeds \cup (S3Keys \cup MailKeys))
                          /\ both # "partial" /\ Registry(asked).built
  BY DEF Api, Worker, Process, LoadApiConfig, LoadWorkerConfig, Config, ResolveDocumentsConfig,
         ResolveDocumentsDelivery
<1>4. ASSUME NEW p \in {api, worker}, p.boots
      PROVE  asked.nodeEnv \in NodeEnvs \cup {"unset"} /\ Registry(asked).built
  BY <1>3, <1>4 DEF Malformed
<1>5. ASSUME worker.boots, MailsVouchers(worker), "OFFER_SIGNING_KEY" \in asked.set \ asked.blank
      PROVE  api.boots /\ api.mode = worker.mode
  <2>1. both = "on" /\ s3 = "on"
    BY <1>2, <1>5, BlockParts DEF MailsVouchers
  <2>2. Missing(asked, ApiNeeds) = {} /\ ~Malformed(asked, ApiNeeds \cup S3Keys)
    BY <1>3, <1>5 DEF Missing, Malformed, ApiNeeds, WorkerNeeds
  <2> QED
    BY <1>1, <1>3, <1>5, <2>1, <2>2
<1>6. ASSUME api.boots, worker.boots
      PROVE  (VoucherRoute(api) = "served") = MailsVouchers(worker)
  <2>1. both \in {"on", "off", "partial"} /\ both # "partial"
    BY <1>3, <1>6 DEF Block
  <2>2. api.documents <=> worker.documents
    BY <1>2, <2>1, BlockParts
  <2>3. worker.documents \in BOOLEAN
    BY DEF Worker, Process, LoadWorkerConfig, Config
  <2> QED
    BY <2>2, <2>3 DEF VoucherRoute, MailsVouchers
<1> HIDE DEF api, worker, s3, both
<1>7. \A p \in {api, worker} : p.boots =>
         /\ p.mode # "live" => p.nodeEnv = asked.nodeEnv
         /\ p.nodeEnv = "production" => p.mode = "live" /\ p.source = "unbound"
         /\ Hop(asked, p, "unknown") = "no_adapter"
         /\ Hop(asked, p, TboSupplierCode) # "no_credentials" =>
               /\ Hop(asked, p, TboSupplierCode) = "record"
               /\ asked.nodeEnv = "development" /\ ~asked.ci
  BY <1>1, <1>4, ProcessHonest
<1> QED
  BY <1>5, <1>6, <1>7 DEF DeploymentsAgree, api, worker
===============================================================================
