------------------------------ MODULE HotelSearch ------------------------------
(***************************************************************************)
(* Hotel search (apps/api/src/hotel-search): the fan-out over a tenant's   *)
(* suppliers under one budget (search.service.ts), streamed to the client  *)
(* by search.controller.ts, over the availability cache the searches of a  *)
(* tenant share (availability-cache.ts).                                   *)
(*                                                                         *)
(* All searches run in one process.  A step is a turn of its event loop:   *)
(* an answer, a timer or a closing socket.  What a turn makes ready is     *)
(* consumed before the next turn begins (Turn, and the guard TurnBegins of *)
(* all other steps), because neither the generator nor the controller      *)
(* awaits anything else between two events.  A supplier's answer is the    *)
(* nationality it was priced for and the number of offers.                 *)
(***************************************************************************)
EXTENDS Integers, Sequences, FiniteSets, SequencesExt

CONSTANTS
    Searches,       \* requests to POST /hotel-search, of one tenant
    Suppliers,      \* codes with a registered hotel adapter
    Enabled,        \* the sets of them a search may find enabled
    Nationalities,  \* guest nationalities asked for; the rest of the query is one
    OfferCounts,    \* numbers of offers a supplier may answer with
    Miss            \* nothing cached

ASSUME SuppliersAssumption == IsFiniteSet(Suppliers)
ASSUME EnabledAssumption == Enabled \in [Searches -> SUBSET SUBSET Suppliers]
ASSUME OfferCountsAssumption == OfferCounts \subseteq Nat

VARIABLES
    search,         \* the controller and the generator of each search
    lane,           \* the lane of each search and supplier
    frames,         \* what each client was sent
    availability,   \* the cache: an answer per supplier and nationality
    arrived         \* lanes that delivered before the budget expired, a history

searchVars == <<search, lane, frames, availability, arrived>>

Bodies == {"malformed", "reversed_dates", "valid"}

\* todo is what the lane still has to price and issue.
IdleLane == [pc |-> "off", answer |-> Miss, todo |-> 0, kind |-> "none"]

NoCount == [succeeded |-> 0, failed |-> 0, offers |-> 0]

SearchInit ==
    /\ \E body \in [Searches -> Bodies], nationality \in [Searches -> Nationalities] :
          search = [q \in Searches |->
            [pc |-> "new", body |-> body[q], nationality |-> nationality[q],
             pending |-> {}, timer |-> "off", gone |-> FALSE, count |-> NoCount]]
    /\ lane = [q \in Searches |-> [s \in Suppliers |-> IdleLane]]
    /\ frames = [q \in Searches |-> <<>>]
    /\ availability = [s \in Suppliers |-> [n \in Nationalities |-> Miss]]
    /\ arrived = [q \in Searches |-> {}]

Settled(q) == {s \in search[q].pending : lane[q][s].pc \in {"delivered", "failed"}}

\* No search has anything left to do in this turn.
Quiet ==
    \A q \in Searches :
        search[q].pc = "racing" => search[q].pending # {} /\ Settled(q) = {}

NoMatterWhatIsReady == TRUE                                          \* mutant

TurnBegins == Quiet

Failed(s, kind) == [type |-> "supplier.failed", supplier |-> s, kind |-> kind]

SearchFailed == [type |-> "search.failed"]

Completed(status, count) ==
    [type |-> "search.completed", status |-> status, count |-> count]

\* What the client is sent, unless it left.
Stream(q, sent) == frames' = [frames EXCEPT ![q] = IF search[q].gone THEN @ ELSE @ \o sent]
-----------------------------------------------------------------------------
(* HotelSearchController.search                                            *)

\* A malformed body is refused by an envelope; the stream is not opened.
Refuse(q) ==
    /\ TurnBegins
    /\ search[q].pc = "new" /\ search[q].body = "malformed"
    /\ search' = [search EXCEPT ![q].pc = "refused"]
    /\ UNCHANGED <<lane, frames, availability, arrived>>

\* The order of the dates is checked by the generator only, when the headers
\* are out, and fails the search.
OpenAndFail(q) ==
    /\ TurnBegins
    /\ search[q].pc = "new" /\ search[q].body = "reversed_dates"
    /\ Stream(q, <<SearchFailed>>)
    /\ search' = [search EXCEPT ![q].pc = "ended"]
    /\ UNCHANGED <<lane, availability, arrived>>

OpenStream(q) ==
    /\ TurnBegins
    /\ search[q].pc = "new" /\ search[q].body = "valid"
    /\ search' = [search EXCEPT ![q].pc = "resolving"]
    /\ UNCHANGED <<lane, frames, availability, arrived>>

DisconnectStopsTimer(q) ==                                           \* mutant
    /\ TurnBegins
    /\ search[q].pc \in {"resolving", "racing"} /\ ~search[q].gone
    /\ search' = [search EXCEPT ![q].gone = TRUE, ![q].timer = "off"]
    /\ UNCHANGED <<lane, frames, availability, arrived>>

\* The generator is told to return, which it does at its next yield.
Disconnect(q) ==
    /\ TurnBegins
    /\ search[q].pc \in {"resolving", "racing"} /\ ~search[q].gone
    /\ search' = [search EXCEPT ![q].gone = TRUE]
    /\ UNCHANGED <<lane, frames, availability, arrived>>
-----------------------------------------------------------------------------
(* HotelSearchService.search                                               *)

AccountsFail(q) ==
    /\ TurnBegins /\ search[q].pc = "resolving"
    /\ Stream(q, <<SearchFailed>>)
    /\ search' = [search EXCEPT ![q].pc = "ended"]
    /\ UNCHANGED <<lane, availability, arrived>>

\* The client left before the first event: no lane is started.
ResolvedTooLate(q) ==
    /\ TurnBegins /\ search[q].pc = "resolving" /\ search[q].gone
    /\ search' = [search EXCEPT ![q].pc = "ended"]
    /\ UNCHANGED <<lane, frames, availability, arrived>>

AccountsResolved(q) ==
    /\ TurnBegins /\ search[q].pc = "resolving" /\ ~search[q].gone
    /\ \E queried \in Enabled[q] :
          /\ Stream(q, <<[type |-> "search.started", suppliers |-> queried]>>)
          /\ search' = [search EXCEPT
                ![q].pc = "racing", ![q].pending = queried,
                ![q].timer = IF queried = {} THEN "off" ELSE "armed"]
          /\ lane' = [lane EXCEPT ![q] = [s \in Suppliers |->
                IF s \in queried THEN [IdleLane EXCEPT !.pc = "cache"] ELSE IdleLane]]
    /\ UNCHANGED <<availability, arrived>>

Counted(count, l) ==
    IF l.pc = "delivered"
    THEN [count EXCEPT !.succeeded = @ + 1, !.offers = @ + l.answer.offers]
    ELSE [count EXCEPT !.failed = @ + 1]

EventOf(q, s) ==
    IF lane[q][s].pc = "delivered"
    THEN [type |-> "supplier.results", supplier |-> s, answer |-> lane[q][s].answer]
    ELSE Failed(s, lane[q][s].kind)

StillPending(q, s) == search[q].pending                              \* mutant

Remaining(q, s) == search[q].pending \ {s}

\* A lane that settled wins the race; it is yielded and sent.
Consume(q, s) ==
    /\ search[q].pc = "racing" /\ ~search[q].gone
    /\ s \in Settled(q)
    /\ search' = [search EXCEPT ![q].pending = Remaining(q, s),
                               ![q].count = Counted(@, lane[q][s])]
    /\ Stream(q, <<EventOf(q, s)>>)
    /\ UNCHANGED <<lane, availability, arrived>>

Complete(q) ==
    /\ search[q].pc = "racing" /\ search[q].pending = {}
    /\ Stream(q, <<Completed("complete", search[q].count)>>)
    /\ search' = [search EXCEPT ![q].pc = "ended", ![q].timer = "off"]
    /\ UNCHANGED <<lane, availability, arrived>>

\* The next event finds the client gone, and the generator returns.
TearDown(q, s) ==
    /\ search[q].pc = "racing" /\ search[q].gone
    /\ s \in Settled(q)
    /\ search' = [search EXCEPT ![q].pc = "ended", ![q].timer = "off"]
    /\ UNCHANGED <<lane, frames, availability, arrived>>

BudgetExpires(q) ==
    LET late == SetToSeq(search[q].pending)
        count == [search[q].count EXCEPT !.failed = @ + Len(late)]
    IN  /\ TurnBegins
        /\ search[q].pc = "racing" /\ search[q].timer = "armed"
        /\ Stream(q, [i \in DOMAIN late |-> Failed(late[i], "supplier_timeout")]
                     \o <<Completed("budget_exhausted", count)>>)
        /\ search' = [search EXCEPT ![q].pc = "ended", ![q].timer = "off", ![q].count = count]
        /\ UNCHANGED <<lane, availability, arrived>>
-----------------------------------------------------------------------------
(* HotelSearchService.runLane; an abandoned lane runs on to its own end.   *)

LaneAt(q, s, pc) == TurnBegins /\ lane[q][s].pc = pc

Becomes(q, s, l) ==
    /\ lane' = [lane EXCEPT ![q][s] = l]
    /\ arrived' = IF l.pc = "delivered" /\ search[q].timer = "armed"
                  THEN [arrived EXCEPT ![q] = @ \union {s}] ELSE arrived

Fails(q, s, kind) ==
    /\ Becomes(q, s, [IdleLane EXCEPT !.pc = "failed", !.kind = kind])
    /\ UNCHANGED <<search, frames, availability>>

\* Without an offer there is nothing to price.
Priced(l, answer) ==
    [l EXCEPT !.answer = answer, !.todo = answer.offers,
              !.pc = IF answer.offers = 0 THEN "delivered" ELSE "pricing"]

KeyWithoutNationality(q) == CHOOSE n \in Nationalities : TRUE        \* mutant

\* The part of the cache key that two searches may differ in.
AvailabilityCacheKey(q) == search[q].nationality

CacheHit(q, s) ==
    LET cached == availability[s][AvailabilityCacheKey(q)] IN
    /\ LaneAt(q, s, "cache")
    /\ cached # Miss
    /\ Becomes(q, s, Priced(lane[q][s], cached))
    /\ UNCHANGED <<search, frames, availability>>

\* Absent, expired, unreadable, or the cache does not answer.
CacheMiss(q, s) ==
    /\ LaneAt(q, s, "cache")
    /\ Becomes(q, s, [lane[q][s] EXCEPT !.pc = "calling"])
    /\ UNCHANGED <<search, frames, availability>>

\* callSupplierSearch; every offer echoes the nationality asked for.
SupplierAnswers(q, s) ==
    /\ LaneAt(q, s, "calling")
    /\ \E offers \in OfferCounts :
          Becomes(q, s, [lane[q][s] EXCEPT !.pc = "storing",
                          !.answer = [applied |-> search[q].nationality, offers |-> offers]])
    /\ UNCHANGED <<search, frames, availability>>

\* An error of the taxonomy keeps its kind, the transport's deadline among
\* them; unresolvable credentials and a foreign echo are the platform's.
SupplierFails(q, s) ==
    /\ LaneAt(q, s, "calling")
    /\ \E kind \in {"supplier_timeout", "supplier_unavailable"} : Fails(q, s, kind)

\* put: the write may be lost, which is no failure.
Store(q, s) ==
    /\ LaneAt(q, s, "storing")
    /\ Becomes(q, s, Priced(lane[q][s], lane[q][s].answer))
    /\ availability' \in
          {availability, [availability EXCEPT ![s][AvailabilityCacheKey(q)] = lane[q][s].answer]}
    /\ UNCHANGED <<search, frames>>

\* priceAndIssue, offer by offer.
IssueOffer(q, s) ==
    LET l == lane[q][s] IN
    /\ LaneAt(q, s, "pricing")
    /\ Becomes(q, s, [l EXCEPT !.todo = @ - 1,
                               !.pc = IF l.todo = 1 THEN "delivered" ELSE "pricing"])
    /\ UNCHANGED <<search, frames, availability>>

\* What was issued before the failure stays in the database, unseen.
IssueFails(q, s) ==
    /\ LaneAt(q, s, "pricing")
    /\ Fails(q, s, "supplier_unavailable")
-----------------------------------------------------------------------------
Request(q) == Refuse(q) \/ OpenAndFail(q) \/ OpenStream(q)

Accounts(q) == AccountsFail(q) \/ ResolvedTooLate(q) \/ AccountsResolved(q)

Turn(q) == Complete(q) \/ \E s \in Suppliers : Consume(q, s) \/ TearDown(q, s)

Lane(q, s) ==
    \/ CacheHit(q, s) \/ CacheMiss(q, s) \/ SupplierAnswers(q, s) \/ SupplierFails(q, s)
    \/ Store(q, s) \/ IssueOffer(q, s) \/ IssueFails(q, s)

SearchNext ==
    \E q \in Searches :
        \/ Request(q) \/ Disconnect(q) \/ Accounts(q) \/ Turn(q) \/ BudgetExpires(q)
        \/ \E s \in Suppliers : Lane(q, s)

SearchSpec == SearchInit /\ [][SearchNext]_searchVars

\* The tenant database answers or fails, the timer fires, and a turn runs to
\* its end.  No supplier and no client owes anything.
SearchFairness ==
    \A q \in Searches :
       WF_searchVars(Accounts(q)) /\ WF_searchVars(Turn(q)) /\ WF_searchVars(BudgetExpires(q))
-----------------------------------------------------------------------------
Sent(q, type) == {i \in DOMAIN frames[q] : frames[q][i].type = type}

Reports(f, s) == f.type \in {"supplier.results", "supplier.failed"} /\ f.supplier = s

ReportedAs(q, s, type) == \E i \in Sent(q, type) : frames[q][i].supplier = s

\* A client is told of each supplier queried once, in whatever order lanes,
\* the budget and failures come, and what it is sent last counts the lanes it
\* was told of (search.service.ts search, header and doc comment).
EachToldOnce ==
    \A q \in Searches :
        /\ \A s \in Suppliers : \A i, j \in DOMAIN frames[q] :
              Reports(frames[q][i], s) /\ Reports(frames[q][j], s) => i = j
        /\ \A last \in Sent(q, "search.completed") :
              /\ last = Len(frames[q])
              /\ \A s \in frames[q][1].suppliers :
                    \E i \in DOMAIN frames[q] : Reports(frames[q][i], s)
              /\ frames[q][last].count.succeeded = Cardinality(Sent(q, "supplier.results"))
              /\ frames[q][last].count.failed = Cardinality(Sent(q, "supplier.failed"))

\* The offers of the frames f: each the frame it stands in and its place there.
OffersOf(f) ==
    UNION {{i} \X (1 .. f[i].answer.offers) : i \in {j \in DOMAIN f : f[j].type = "supplier.results"}}

\* And as many offers as it was sent.
OffersAddUp ==
    \A q \in Searches : \A last \in Sent(q, "search.completed") :
        frames[q][last].count.offers = Cardinality(OffersOf(frames[q]))

SuppliersAccountedFor == EachToldOnce /\ OffersAddUp

\* Whatever arrived before the budget expired is in the answer: no lane that
\* delivered in time is reported as timed out, however many lanes deliver
\* together and however close to the expiry (search.service.ts, header; it
\* rests on a controller that does not wait between two events).
ArrivedIsReturned ==
    \A q \in Searches :
        Sent(q, "search.completed") # {} =>
            \A s \in arrived[q] : ReportedAs(q, s, "supplier.results")

\* No client is shown rates priced for a nationality other than its own,
\* though searches share a cache and lanes of finished searches still write to
\* it (search.service.ts callSupplierSearch, cache-keys.ts).
NoForeignRates ==
    \A q \in Searches : \A i \in DOMAIN frames[q] :
        LET f == frames[q][i] IN
        f.type = "supplier.results" /\ f.answer.offers > 0 =>
            f.answer.applied = search[q].nationality

\* A stream that was opened ends and frees its timer, although suppliers never
\* answer and clients leave without a word (search.service.ts: one hard budget).
SearchesEnd ==
    \A q \in Searches : (search[q].pc = "resolving") ~> (search[q].pc = "ended")

=============================================================================
