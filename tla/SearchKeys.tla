------------------------------ MODULE SearchKeys ------------------------------
(***************************************************************************)
(* Which searches share an answer: the key of the availability cache       *)
(* (apps/api/src/hotel-search/cache-keys.ts), and the way of a search's    *)
(* rooms from there through the gate of a booking (booking.service.ts)     *)
(* to the supplier (adapters/hotel/tbo/src/adapter.ts).                    *)
(*                                                                         *)
(* A room is its adults and the ages of its children; a target is a list   *)
(* of properties or a location.  Tenant, supplier and dates stand in the   *)
(* key as they were asked and are one model value, the stay.  The JSON     *)
(* encoding tells different arrays apart, so a key is the array.           *)
(***************************************************************************)
EXTENDS Integers, Sequences

\* A stable sort.
SortedBy(list, Before(_, _)) ==
    LET order == CHOOSE order \in [DOMAIN list -> DOMAIN list] :
            \A i, j \in DOMAIN list : i < j =>
                \/ Before(list[order[i]], list[order[j]])
                \/ list[order[i]] = list[order[j]] /\ order[i] < order[j]
    IN  [i \in DOMAIN list |-> list[order[i]]]

Sorted(numbers) == SortedBy(numbers, <)

\* The comparator of the sorted rooms: by adults, then by how many children,
\* then by their ages, which are sorted already.
RoomBefore(a, b) ==
    \/ a[1] < b[1]
    \/ /\ a[1] = b[1]
       /\ \/ Len(a[2]) < Len(b[2])
          \/ /\ Len(a[2]) = Len(b[2])
             /\ \E i \in DOMAIN a[2] :
                   /\ a[2][i] < b[2][i]
                   /\ \A j \in 1..(i - 1) : a[2][j] = b[2][j]

\* Children counted, not told apart by age.
HeadCounts(rooms) ==                                                 \* mutant
    SortedBy([i \in DOMAIN rooms |-> <<rooms[i].adults, [c \in DOMAIN rooms[i].childAges |-> 0]>>],
             RoomBefore)

OccupancySignature(rooms) ==
    SortedBy([i \in DOMAIN rooms |-> <<rooms[i].adults, Sorted(rooms[i].childAges)>>], RoomBefore)

TargetSignature(target) ==
    IF target.kind = "properties"
    THEN <<"properties", Sorted(target.ids)>>
    ELSE <<"location", target.ids>>

\* availabilityCacheKey; currency and locale have no place in it.
KeyOf(lookup) ==
    <<lookup.stay, TargetSignature(lookup.target), OccupancySignature(lookup.rooms),
      lookup.nationality>>

\* What TBO is asked to price (search).
PaxRooms(rooms) ==
    [i \in DOMAIN rooms |->
        [adults |-> rooms[i].adults, children |-> Len(rooms[i].childAges),
         ages |-> rooms[i].childAges]]

\* The gate of a booking: as many rooms as the offer's own search had, each
\* with as many guests as that search counted.
GuestsMatchOccupancy(guests, occupancy) ==
    /\ Len(guests) = Len(occupancy)
    /\ \A i \in DOMAIN guests :
          Len(guests[i]) = occupancy[i].adults + Len(occupancy[i].childAges)

\* Who TBO is told to lodge (book): one entry per room of the guest list, in
\* its order.  A guest is an age.
CustomerDetails(guests) ==
    [i \in DOMAIN guests |-> [n \in DOMAIN guests[i] |-> IF guests[i][n] < 18 THEN "Child" ELSE "Adult"]]
=============================================================================
