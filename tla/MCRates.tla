-------------------------------- MODULE MCRates --------------------------------
(***************************************************************************)
(* What the TBO adapter makes of a supplier's rate (TboAdapter): its fee,  *)
(* its revalidation, the record of a booking of several rooms, and the     *)
(* offers of a search; and what a customer is quoted for it (Pricing): the *)
(* markup rule that is applied, and the price a rule, a tax, a split and a *)
(* conversion make.  One variable holds what is asked; a fee is asked again *)
(* at every later instant.                                                 *)
(***************************************************************************)
EXTENDS TboAdapter, Pricing

CONSTANTS MaxRows, MaxRooms, LastInstant, RateCurrency, MaxNet, SellCurrencies

VARIABLE asked

Net == [amount |-> 30, currency |-> RateCurrency]

Charges == {[numerator |-> 5, denominator |-> 1000], [numerator |-> 25, denominator |-> 1]}

Rows == [fromDate : 0..LastInstant, chargeType : {"Fixed", "Percentage"}, charge : Charges]

Fees ==
    [kind : {"fee"}, rows : UNION {[1..n -> Rows] : n \in 0..MaxRows},
     at : {-TboUtcOffsetMinutes - 1}]

Instants == (-TboUtcOffsetMinutes - 1)..LastInstant

\* Rows of two instants, enough for ties, gaps and both charge types.
FewRows ==
    [fromDate : 0..1, chargeType : {"Fixed"},
     charge : {[numerator |-> 5, denominator |-> 1000], [numerator |-> 12, denominator |-> 100]}]
        \cup [fromDate : {1}, chargeType : {"Percentage"},
              charge : {[numerator |-> 25, denominator |-> 1]}]

UpTo(n, S) == UNION {[1..k -> S] : k \in 0..n}

\* The first two are the same money, in digits TBO may send.
Fares == {[numerator |-> 200, denominator |-> 1000], [numerator |-> 201, denominator |-> 1000],
          [numerator |-> 21, denominator |-> 100]}

MealWords ==
    [Room_Only |-> {"RO"}, Breakfast_For_2 |-> {"BB"},
     All_Inclusive_With_Breakfast |-> {"AI", "BB"}, Half_Pension |-> {}]

TboAnswer(rooms) ==
    [secrets |-> TboSecretKeys, http |-> 200, parses |-> TRUE, status |-> 200,
     rooms |-> rooms, currency |-> RateCurrency, confirmationNumber |-> {}, bookingStatus |-> "confirmed"]

Rates(fares, rows, meals) ==
    [fare : fares, rows : rows, refundable : BOOLEAN, mealType : meals,
     currency : {RateCurrency}]

\* A rate as it was priced, and the answer of PreBook later.
PreBooks ==
    {[kind |-> "check", rate |-> rate, answer |-> TboAnswer(rooms)] :
        rate \in Rates({[numerator |-> 200, denominator |-> 1000]}, UpTo(2, FewRows), {"Room_Only"}),
        rooms \in {<<>>} \cup {<<r>> : r \in Rates(Fares, UpTo(2, FewRows), {"Room_Only"})}}

Cents(n) == [numerator |-> n, denominator |-> 100]

\* A booking of several rooms, read again or cancelled first.
Details ==
    {[kind |-> "detail", cancelled |-> cancelled,
      answer |-> [TboAnswer(rooms) EXCEPT !.bookingStatus = bookingStatus]] :
        rooms \in UNION {[1..n -> Rates({Cents(10), Cents(21)}, UpTo(IF n < 3 THEN 2 ELSE 1, FewRows),
                                        {"Room_Only"})] : n \in 1..MaxRooms}
                     \cup UpTo(2, Rates({Cents(MaxSafeInteger)}, UpTo(1, FewRows), {"Room_Only"})),
        cancelled \in {{}}, bookingStatus \in {"confirmed"}}
      \cup
    {[kind |-> "detail", cancelled |-> {[TboAnswer(<<>>) EXCEPT !.status = code]},
      answer |-> [TboAnswer(rooms) EXCEPT !.bookingStatus = bookingStatus]] :
        rooms \in UpTo(1, Rates({Cents(10)}, {<<>>}, {"Room_Only"})),
        code \in {200, 400},
        bookingStatus \in {"confirmed", "cancelled", "cancellationinprogress", "frozen"}}

\* A charge type nobody has seen yet.
Drifted == <<[fromDate |-> 0, chargeType |-> "Nights", charge |-> [numerator |-> 1, denominator |-> 1]]>>

Property(supplier) == [kind |-> "properties", ids |-> {[supplier |-> supplier, hotelCode |-> 1]}]

Targets == {Property("tbo"), Property("other"), [kind |-> "location", ids |-> {}]}

Searches ==
    {[kind |-> "search", target |-> target,
      answer |-> [TboAnswer(rooms) EXCEPT !.status = status, !.http = http, !.parses = parses,
                                       !.secrets = secrets]] :
        rooms \in UpTo(3, {room \in Rates(Fares, {<<>>, Drifted}, DOMAIN MealWords) :
                              room.refundable /\ room.fare.denominator = 100}),
        target \in Targets, status \in {200, 201, 401}, http \in {200, 504},
        parses \in {TRUE}, secrets \in {TboSecretKeys}}
      \cup
    {[kind |-> "search", target |-> Property("tbo"),
      answer |-> [TboAnswer(<<>>) EXCEPT !.parses = parses, !.secrets = secrets]] :
        parses \in BOOLEAN, secrets \in {TboSecretKeys, {"apiUrl", "username"}}}

------------------------------------------------------------------------------
\* The supplier's row in force at an instant: of the deadlines passed the
\* latest, of equals the last listed.
InForce(rows, at) ==
    LET passed == {i \in DOMAIN rows : TboDateTimeToUtc(rows[i].fromDate) <= at}
    IN  {i \in passed :
            \A j \in passed : \/ rows[j].fromDate < rows[i].fromDate
                              \/ rows[j].fromDate = rows[i].fromDate /\ j <= i}

FeeAt(rows, net, at) ==
    SumFunction([i \in InForce(rows, at) |-> Penalty(rows[i], net)])

\* mapCancellationPolicy and resolvePenaltyAt, composed: the fee at an instant
\* is the charge of the supplier's row in force, in whatever order the rows
\* came; with none in force there is no fee.
FeeIsTheSuppliers ==
    asked.kind = "fee" =>
        \A policy \in MapCancellationPolicy(asked.rows, Net) :
            /\ ValidPolicy(policy)
            /\ ResolvePenaltyAt(policy, asked.at) =
                  {Penalty(asked.rows[i], Net) : i \in InForce(asked.rows, asked.at)}

IsError(result) == "error" \in DOMAIN result

\* check and book: what a customer agreed to is what is booked.  A rate TBO
\* did not touch is accepted; one that is accepted costs today what it cost
\* when it was priced, to cancel too, at every instant; and the record of the
\* booking says so.
AcceptedIsAsPriced ==
    asked.kind = "check" =>
        \A priced \in MapRoom(asked.rate, RateCurrency) :
            LET rooms   == asked.answer.rooms
                checked == Check(priced.token, asked.answer)
                booked  == Book(checked.token, "ref", [TboAnswer(<<>>) EXCEPT !.confirmationNumber = {"n"}])
            IN  /\ rooms = <<asked.rate>> => checked = priced
                /\ ~IsError(checked) =>
                      /\ booked.net = NetOf(asked.rate, RateCurrency)
                      /\ booked.net = NetOf(rooms[1], RateCurrency)
                      /\ booked.policy.refundable = rooms[1].refundable
                      /\ \A at \in Instants :
                            /\ PenaltyFor(booked.policy.rules, at) = FeeAt(asked.rate.rows, booked.net, at)
                            /\ PenaltyFor(booked.policy.rules, at) = FeeAt(rooms[1].rows, booked.net, at)

\* retrieve and mergeCancellationPolicies: at every instant the fee of a
\* booking is the sum of what its rooms cost to cancel then, and it is
\* refundable only if all of them are; and it is cancelled only if TBO says so,
\* an accepted Cancel notwithstanding.
MergedFeeIsTheSum ==
    asked.kind = "detail" =>
        LET rooms  == asked.answer.rooms
            net(i) == NetOf(rooms[i], RateCurrency)
            Sum(f(_)) == SumFunction([i \in DOMAIN rooms |-> f(i)])
            Amount(i) == net(i).amount
            record == IF asked.cancelled = {} THEN Retrieve("ref", asked.answer)
                      ELSE Cancel("ref", CHOOSE c \in asked.cancelled : TRUE, asked.answer)
        IN  ~IsError(record) =>
                /\ record.net.amount = Sum(Amount)
                /\ record.policy.refundable = \A i \in DOMAIN rooms : rooms[i].refundable
                /\ \A at \in Instants :
                      LET Fee(i) == FeeAt(rooms[i].rows, net(i), at)
                      IN  PenaltyFor(record.policy.rules, at) = Sum(Fee)
                /\ record.status = "cancelled" => asked.answer.bookingStatus \in {"cancelled", "canceled"}

\* A rate of a charge type nobody knows, or of an amount out of range.
Inconvertible(room, currency) ==
    LET net == NetOf(room, currency)
    IN  \/ ~Safe(net.amount)
        \/ \E i \in DOMAIN room.rows : \/ room.rows[i].chargeType \notin {"Fixed", "Percentage"}
                                       \/ ~Safe(Penalty(room.rows[i], net))

\* mapHotelRooms and its log: "inventory silently vanishing tenant-wide is not
\* acceptable" (mapping.ts:249-250).  A search that TBO answers has an offer of
\* every rate, in order and with the most inclusive board its spelling names,
\* but for those whose spelling it counted; and it fails if and only if a
\* rate it could name cannot be converted.
NoRateVanishes ==
    asked.kind = "search" =>
        LET rooms  == asked.answer.rooms
            result == Search(asked.target, asked.answer)
            Named(i) == \E k \in DOMAIN Boards : Boards[k] \in Mentions[rooms[i].mealType]
            Best(i) == CHOOSE k \in DOMAIN Boards :
                          /\ Boards[k] \in Mentions[rooms[i].mealType]
                          /\ \A j \in 1..(k - 1) : Boards[j] \notin Mentions[rooms[i].mealType]
            Place(i) == Cardinality({j \in 1..i : Named(j)})
        IN  (Succeeded(asked.answer) /\ asked.target = Property("tbo")) =>
                /\ IsError(result) <=> \E i \in DOMAIN rooms :
                                         Named(i) /\ Inconvertible(rooms[i], asked.answer.currency)
                /\ ~IsError(result) =>
                      /\ Len(result.offers) + SumFunction(result.skipped) = Len(rooms)
                      /\ \A i \in DOMAIN rooms : Named(i) =>
                            result.offers[Place(i)].boardBasis = Boards[Best(i)]
                      /\ \A spelling \in DOMAIN result.skipped : Mentions[spelling] = {}

------------------------------------------------------------------------------
\* A rule that constrains the columns of a set, on the values of the context.
RuleOn(columns, id, priority) ==
    [id |-> id, priority |-> priority, active |-> TRUE,
     scope |-> [column \in Range(Scopes) |-> IF column \in columns THEN "own" ELSE Unset],
     travelFrom |-> IF "travel" \in columns THEN 2 ELSE Unset,
     travelTo |-> Unset,
     valueType |-> "percent", value |-> 1000, currency |-> Unset, commissionSplitBps |-> Unset]

Columns == Range(Scopes) \cup {"travel"}

Duels ==
    {<<RuleOn(a, i, p), RuleOn(b, 3 - i, 1)>> :
        a \in SUBSET Columns, b \in SUBSET Columns, i \in 1..2, p \in 1..2}

Trios ==
    LET Few == SUBSET {"agencyId", "destination", "travel"}
        Ids == {f \in [1..3 -> 1..3] : IsInjective(f)}
    IN  {<<RuleOn(a, ids[1], p), RuleOn(b, ids[2], 1), RuleOn(c, ids[3], 1)>> :
            a \in Few, b \in Few, c \in Few, ids \in Ids, p \in 1..2}

Contexts ==
    {[scope |-> [column \in Range(Scopes) |->
                    IF column = "agencyId" THEN agency ELSE "own"],
      travelDate |-> date, nights |-> nights, paxCount |-> 2] :
        agency \in {"own", Unset}, date \in {1, 2, Unset}, nights \in {2, Unset}}

Questions ==
    [kind : {"choice"}, rules : Duels \cup Trios,
     context : {context \in Contexts : context.nights = 2 /\ context.travelDate # Unset}]

------------------------------------------------------------------------------
Priced(valueType, value, currency, split) ==
    <<[RuleOn({}, 1, 1) EXCEPT !.valueType = valueType, !.value = value,
                               !.currency = currency, !.commissionSplitBps = split]>>

Splits == {Unset, 0, 3333, 5000, Whole}

Pricelists ==
    {<<>>}
        \cup {Priced("percent", value, Unset, split) :
                value \in {-20000, -1250, 1250}, split \in Splits}
        \cup {Priced(valueType, value, currency, split) :
                valueType \in {"fixed", "per_night", "per_pax"}, value \in {-3, 5},
                currency \in SellCurrencies, split \in Splits}

Settlements ==
    {Unset}
        \cup {[currency |-> currency, bufferBps |-> buffer,
               rate |-> [from |-> RateCurrency, to |-> currency,
                         numerator |-> numerator, denominator |-> 100]] :
                currency \in SellCurrencies, buffer \in {0, 200}, numerator \in {31, 375}}

Prices ==
    [kind : {"price"}, rules : Pricelists,
     net : [amount : 0..MaxNet \cup {MaxSafeInteger}, currency : {RateCurrency}],
     context : {context \in Contexts : context.travelDate = 1 /\ context.scope["agencyId"] = "own"},
     options : [settlement : Settlements,
                vat : [mode : {"inclusive", "exclusive", "exempt"}, rateBps : {0, 1500}]]]

------------------------------------------------------------------------------
\* The ordering documented in rules.ts: the narrowest column that only one of
\* two rules constrains decides, before priority, before the id.
Outranks(a, b) ==
    LET travel == Len(Scopes) + 1       \* narrower than every scope
        On(rule, i) == IF i = travel THEN Banded(rule) ELSE rule.scope[Scopes[i]] # Unset
        differ == {i \in 1..travel : On(a, i) # On(b, i)}
    IN  \/ \E i \in differ : On(a, i) /\ \A j \in differ : j <= i
        \/ /\ differ = {}
           /\ a.priority < b.priority \/ (a.priority = b.priority /\ a.id < b.id)

\* selectRule fires a matching rule that outranks every other matching one,
\* wherever it stands in the list, and none only when none matches.
SelectsMostSpecific ==
    asked.kind = "choice" =>
        LET matching == {rule \in Range(asked.rules) : RuleMatchesContext(rule, asked.context)}
        IN  SelectRule(asked.rules, asked.context) =
                {rule \in matching : \A other \in matching \ {rule} : Outranks(rule, other)}

\* A share is the exact proportion to the nearest unit.
Nearest(share, total, part, whole) ==
    2 * Magnitude(share * whole - total * part) <= whole

\* The guarantees of resolvePrice: nothing is lost or invented between the
\* components, the tax and the split; no price below zero, none below the net
\* without a discount; the tax and the agency's share are what the rates say,
\* to the nearest unit.
PriceAddsUp ==
    asked.kind = "price" =>
        \A p \in ResolvePrice(asked.net, asked.context, asked.rules, asked.options) :
            LET vat == asked.options.vat
            IN  /\ SumFunction(p.components) = p.sell
                /\ p.taxableBase + p.vat = p.sell
                /\ p.sell >= 0
                /\ p.sell >= p.net \/ \E rule \in p.firedRule : rule.value < 0
                /\ vat.mode = "inclusive" => Nearest(p.vat, p.sell, vat.rateBps, Whole + vat.rateBps)
                /\ vat.mode = "exclusive" => Nearest(p.vat, p.taxableBase, vat.rateBps, Whole)
                /\ vat.mode = "exempt" => p.vat = 0
                /\ \A split \in p.commissionSplit :
                      /\ split[1] + split[2] = p.markup
                      /\ \A rule \in p.firedRule :
                            Nearest(split[1], p.markup, rule.commissionSplitBps, Whole)

==============================================================================
