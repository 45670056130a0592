---------------------------- MODULE MCHotelSearch ----------------------------
(***************************************************************************)
(* Two searches of one tenant over two suppliers, each shown by the list   *)
(* of the UI kit; and the searches that may share a cached answer.         *)
(***************************************************************************)
EXTENDS HotelSearch, StreamingList, SearchKeys, TLC

CONSTANTS q1, q2, s1, s2

\* The second search may find one of the accounts disabled, or both.
MCEnabled == (q1 :> {{s1, s2}}) @@ (q2 :> {{}, {s1}})

Showing(view, look) == {view.chips[i].id : i \in {j \in DOMAIN view.chips : view.chips[j].look = look}}

\* What the list shows is the search: a chip per supplier asked, as many items
\* under it as it says; once the search completed no chip still spins, the
\* chips are as many as the counters say, the warning stands if and only if
\* the budget ran out, and "nothing found" is said only of a search that ended
\* with no offer, never of one that failed or still runs (streaming.ts and
\* StreamingList.tsx over what search.service.ts sends).
ListTellsTheSearch ==
    \A q \in Searches :
        LET view == Render(ListAfter(frames[q]))
            completed == Sent(q, "search.completed")
        IN  /\ view.progress <=> completed = {} /\ Sent(q, "search.failed") = {}
            /\ \A i, j \in DOMAIN view.chips : view.chips[i].id = view.chips[j].id => i = j
            /\ \A asked \in Sent(q, "search.started") :
                  {view.chips[i].id : i \in DOMAIN view.chips} = frames[q][asked].suppliers
            /\ \A i \in DOMAIN view.chips :
                  view.chips[i].count =
                    Cardinality({j \in DOMAIN view.items : view.items[j][1] = view.chips[i].id})
            /\ view.empty => \E last \in completed : frames[q][last].count.offers = 0
            /\ \A last \in completed :
                  LET count == frames[q][last].count IN
                  /\ Showing(view, "pending") = {}
                  /\ Cardinality(Showing(view, "results")) = count.succeeded
                  /\ Cardinality(Showing(view, "failed")) = count.failed
                  /\ Len(view.items) = count.offers
                  /\ view.warning <=> frames[q][last].status = "budget_exhausted"
                  /\ ~view.error

\* The client of a search is told of everything that became of it, and shown
\* what it is told.
SearchIsToldWhole == SuppliersAccountedFor /\ ListTellsTheSearch
-----------------------------------------------------------------------------
UpTo(n, S) == UNION {[1..k -> S] : k \in 0..n}

Parties ==
    LET Rooms == [adults : 1..2, childAges : UpTo(2, {4, 11})]
    IN  UpTo(2, Rooms) \ {<<>>}

Targets ==
    [kind : {"properties"}, ids : UpTo(2, {1, 2}) \ {<<>>}] \union
    [kind : {"location"}, ids : [1..1 -> {1, 2}]]

Lookups ==
    [stay : {"stay"}, target : Targets, rooms : Parties, nationality : {"SA", "IN"}]

Counts(s) == [x \in ToSet(s) |-> Cardinality({i \in DOMAIN s : s[i] = x})]

\* What a search asks for, whatever the order its rooms, its children and its
\* hotels are listed in.
Asked(lookup) ==
    <<lookup.target.kind, Counts(lookup.target.ids), lookup.nationality,
      Counts([i \in DOMAIN lookup.rooms |->
                <<lookup.rooms[i].adults, Counts(lookup.rooms[i].childAges)>>])>>

\* Searches share a cached answer if and only if they ask for the same: no
\* age, hotel, room or nationality is lost in the key, and no order divides it
\* (cache-keys.ts, header).
SharedByTheSame ==
    LET both == {<<KeyOf(lookup), Asked(lookup)>> : lookup \in Lookups}
    IN  \A one, other \in both : one[1] = other[1] <=> one[2] = other[2]

\* A list of guests for a party, and the same with a head too many.
Guests(party) ==
    LET Ages(room) == [n \in 1..room.adults |-> 30] \o room.childAges
        whole == [i \in DOMAIN party |-> Ages(party[i])]
    IN  {whole, [whole EXCEPT ![1] = Append(@, 30)], Tail(whole)}

Heads(pax) == [i \in DOMAIN pax |-> pax[i].adults + pax[i].children]

Lodged(details) == [i \in DOMAIN details |-> Len(details[i])]

\* A rate that was priced for one search and found by another in the cache is
\* booked for as many guests as it was priced for, counted by room.  Which of
\* the rooms each party gets is another matter: the guests go to the supplier
\* in the order of the search that books, the rooms it priced stand in the
\* order of the search that asked first, and the key knows no order.
GuestsFitTheRate ==
    \A priced, found \in Parties :
        OccupancySignature(priced) = OccupancySignature(found) =>
            \A guests \in Guests(found) :
                GuestsMatchOccupancy(guests, found) =>
                    LET heads  == Heads(PaxRooms(priced))
                        lodged == Lodged(CustomerDetails(guests))
                    IN  /\ Counts(lodged) = Counts(heads)
                        /\ Heads(PaxRooms(found)) = heads => lodged = heads

\* No client is shown, and none books, a rate that was priced for another
\* party than its own, although the searches of a tenant share their answers.
RatesAreForTheParty == NoForeignRates /\ SharedByTheSame /\ GuestsFitTheRate
=============================================================================
