------------------------------ MODULE TboAdapter ------------------------------
(***************************************************************************)
(* What the TBO adapter (packages/adapters/hotel/tbo/src/adapter.ts,       *)
(* mapping.ts, errors.ts) makes of TBO's answers.  An answer is the set of *)
(* secrets the account it was asked with holds, its HTTP code, whether its *)
(* body parses, the code of its Status envelope and what the operation     *)
(* needs of the rest; a result is a record, or the kind of the error       *)
(* thrown ("conversion" stands for those of the arithmetic).  Answers are  *)
(* arguments: when TBO gives them is the business of BookingLifecycle and  *)
(* SupplierTransport.  A charge is the ratio of integers its decimal       *)
(* denotes; deadlines and the offset count the ticks of one clock.         *)
(***************************************************************************)
EXTENDS Booking, Money, SequencesExt

CONSTANTS
    Mentions,               \* the boards each MealType spelling matches a pattern of
    TboUtcOffsetMinutes     \* in the ticks the instants count

\* Most specific first.
Boards == <<"AI", "FB", "HB", "BB", "RO">>

ASSUME OffsetAssumption == TboUtcOffsetMinutes \in Int
ASSUME MentionsAssumption == \A words \in Range(Mentions) : words \subseteq Range(Boards)

\* currencyExponent.
MinorDigits(currency) ==
    CASE currency \in {"BHD", "IQD", "JOD", "KWD", "LYD", "OMR", "TND"} -> 3
      [] currency \in {"BIF", "CLP", "DJF", "GNF", "ISK", "JPY", "KMF", "KRW", "PYG", "RWF",
                       "UGX", "VND", "VUV", "XAF", "XOF", "XPF"} -> 0
      [] OTHER -> 2

TboAmountToMoney(charge, currency) ==
    DivideRoundHalfAwayFromZero(charge.numerator * 10 ^ MinorDigits(currency), charge.denominator)

\* tboDateTimeToUtcIso.
TboDateTimeToUtc(deadline) == deadline - TboUtcOffsetMinutes

Penalty(row, net) ==
    IF row.chargeType = "Fixed"
    THEN TboAmountToMoney(row.charge, net.currency)
    ELSE MultiplyByScalar(net.amount, row.charge.numerator, row.charge.denominator * 100)

\* The rows as the supplier listed them.
RowOrderListed(rows) == [i \in DOMAIN rows |-> i]

\* The stable sort by instant: the rows' indices in their new order.
RowOrder(rows) ==
    LET Before(i, j) ==
            \/ rows[i].fromDate < rows[j].fromDate
            \/ rows[i].fromDate = rows[j].fromDate /\ i < j
    IN  CHOOSE order \in [DOMAIN rows -> DOMAIN rows] :
            \A i, j \in DOMAIN rows : i < j => Before(order[i], order[j])

\* mapCancellationPolicy: the empty set where a charge type is unknown or an
\* amount overflows.
MapCancellationPolicy(rows, net) ==
    LET order == RowOrder(rows)
        rule(i) == [fromUtc |-> TboDateTimeToUtc(rows[i].fromDate),
                    penalty |-> Penalty(rows[i], net)]
    IN  IF \A i \in DOMAIN rows :
              rows[i].chargeType \in {"Fixed", "Percentage"} /\ Safe(Penalty(rows[i], net))
        THEN {[k \in DOMAIN rows |-> rule(order[k])]}
        ELSE {}

Failed(kind) == [error |-> kind]

HttpErrorKind(code) ==
    CASE code \in {401, 403} -> "auth_failed"
      [] code = 429 -> "rate_limited"
      [] code \in {408, 504} -> "supplier_timeout"
      [] OTHER -> "supplier_rejected"

\* STATUS_KIND; a refusal that is not in the table is the supplier's.
StatusErrorKind(code) ==
    CASE code = 201 -> "sold_out"
      [] code = 315 -> "price_changed"
      [] code = 400 -> "invalid_request"
      [] code \in {401, 403} -> "auth_failed"
      [] code = 429 -> "rate_limited"
      [] OTHER -> "supplier_rejected"

\* tboAccount: without all of them nothing is sent.
TboSecretKeys == {"apiUrl", "username", "password"}

Usable(answer) == TboSecretKeys \subseteq answer.secrets

HttpOk(answer) == Usable(answer) /\ answer.http \in 200..299

Succeeded(answer) == HttpOk(answer) /\ answer.parses /\ answer.status = 200

\* TboClient.call, assertHttpOk, parseJsonWith, assertStatusOk.
Refusal(answer) ==
    Failed(IF ~Usable(answer) THEN "auth_failed"
           ELSE IF ~HttpOk(answer) THEN HttpErrorKind(answer.http)
           ELSE IF ~answer.parses THEN "invalid_request"
           ELSE StatusErrorKind(answer.status))
------------------------------------------------------------------------------
\* The first board, alphabetically, that the spelling mentions.
NormalizeBoardBasisAlphabetical(mealType) ==                         \* mutant
    LET mentioned == Mentions[mealType]
    IN  IF "BB" \in mentioned THEN {"BB"} ELSE mentioned

\* The empty set where the code returns undefined.
NormalizeBoardBasis(mealType) ==
    LET mentioned == {i \in DOMAIN Boards : Boards[i] \in Mentions[mealType]}
    IN  {Boards[i] : i \in {i \in mentioned : \A j \in mentioned : i <= j}}

Unmappable(room) == NormalizeBoardBasis(room.mealType) = {}

NetOf(room, currency) ==
    [amount |-> TboAmountToMoney(room.fare, currency), currency |-> currency]

Policy(room, rules) == [refundable |-> room.refundable, rules |-> rules]

\* TboOfferTokenV1: the fare as TBO wrote it, the policy as it was understood.
Token(room, currency, policy) ==
    [totalFare |-> room.fare, currency |-> currency, policy |-> policy]

\* The offer; the empty set where an amount or a charge type cannot be
\* converted.
MapRoom(room, currency) ==
    LET net == NetOf(room, currency)
    IN  {[boardBasis |-> board, net |-> net,
          policy |-> Policy(room, rules), token |-> Token(room, currency, Policy(room, rules))] :
            board \in NormalizeBoardBasis(room.mealType),
            rules \in IF Safe(net.amount) THEN MapCancellationPolicy(room.rows, net) ELSE {}}

Throws(room, currency) == ~Unmappable(room) /\ MapRoom(room, currency) = {}

\* createSkippedRoomRateLog: how often each spelling was skipped.
SkippedOf(rooms) ==
    LET skipped == {i \in DOMAIN rooms : Unmappable(rooms[i])}
    IN  [spelling \in {rooms[i].mealType : i \in skipped} |->
            Cardinality({i \in skipped : rooms[i].mealType = spelling})]

\* The rooms walked before one throws, or all.
RoomsMapped(rooms, currency) ==
    LET broken == {i \in DOMAIN rooms : Throws(rooms[i], currency)}
    IN  {i \in DOMAIN rooms : \A j \in broken : i < j}

\* toTboHotelCode: every property is asked of the supplier it belongs to.
Searchable(target) ==
    target.kind = "properties" /\ \A id \in target.ids : id.supplier = "tbo"

\* A finite set of integers, in order.
Ascending(numbers) ==
    CHOOSE order \in [1..Cardinality(numbers) -> numbers] :
        \A i, j \in 1..Cardinality(numbers) : i < j => order[i] < order[j]

\* search: one rate that cannot be converted ends it, one whose meal type is
\* unknown is skipped and counted.
Search(target, answer) ==
    LET rooms  == answer.rooms
        walked == RoomsMapped(rooms, answer.currency)
        kept   == Ascending({i \in DOMAIN rooms : ~Unmappable(rooms[i])})
        Offer(room) == CHOOSE offer \in MapRoom(room, answer.currency) : TRUE
    IN  IF ~Searchable(target) THEN Failed("invalid_request")
        ELSE IF HttpOk(answer) /\ answer.parses /\ answer.status = 201
        THEN [offers |-> <<>>, skipped |-> <<>>]
        ELSE IF ~Succeeded(answer) THEN Refusal(answer)
        ELSE IF walked # DOMAIN rooms THEN Failed("conversion")
        ELSE [offers |-> [k \in DOMAIN kept |-> Offer(rooms[kept[k]])],
              skipped |-> SkippedOf(rooms)]
------------------------------------------------------------------------------
\* A policy is compared by its penalties alone.
PolicyEqualsPenalties(a, b) ==                                       \* mutant
    /\ Len(a.rules) = Len(b.rules)
    /\ \A i \in DOMAIN a.rules : a.rules[i].penalty = b.rules[i].penalty

PolicyEquals(a, b) ==
    /\ a.refundable = b.refundable
    /\ Len(a.rules) = Len(b.rules)
    /\ \A i \in DOMAIN a.rules : a.rules[i] = b.rules[i]

PricedNet(token) ==
    [amount |-> TboAmountToMoney(token.totalFare, token.currency), currency |-> token.currency]

\* check (PreBook): the rate as TBO sells it now, if it is the one priced.
Check(token, answer) ==
    IF ~Succeeded(answer) THEN Refusal(answer)
    ELSE IF answer.rooms = <<>> THEN Failed("sold_out")
    ELSE IF Unmappable(answer.rooms[1]) THEN Failed("invalid_request")
    ELSE IF Throws(answer.rooms[1], answer.currency) THEN Failed("conversion")
    ELSE LET offer == CHOOSE o \in MapRoom(answer.rooms[1], answer.currency) : TRUE
         IN  IF offer.net # PricedNet(token) THEN Failed("price_changed")
             ELSE IF ~PolicyEquals(offer.policy, token.policy) THEN Failed("price_changed")
             ELSE offer

\* book: the record repeats the token's snapshot.
Book(token, clientReference, answer) ==
    IF ~Succeeded(answer) THEN Refusal(answer)
    ELSE IF answer.confirmationNumber = {} THEN Failed("supplier_rejected")
    ELSE [reference |-> answer.confirmationNumber, clientReference |-> clientReference,
          status |-> "confirmed", net |-> PricedNet(token), policy |-> token.policy]
------------------------------------------------------------------------------
\* A vocabulary of TBO's, trimmed and in lower case.
MapBookingStatus(value) ==
    CASE value \in {"confirmed", "vouchered"} -> {"confirmed"}
      [] value \in {"cancelled", "canceled"} -> {"cancelled"}
      [] value \in {"pending", "inprogress", "in progress", "onrequest", "on request",
                    "unconfirmed", "cancellationinprogress"} -> {"pending"}
      [] OTHER -> {}

\* The deadlines any of the policies introduces.
InstantsOf(policies) ==
    UNION {{policies[p].rules[i].fromUtc : i \in DOMAIN policies[p].rules} : p \in DOMAIN policies}

\* Instants at which only the rules of that very instant are summed.
MergeOwnRules(policies) ==                                           \* mutant
    LET Own(rules, at) ==
            SumFunction([i \in DOMAIN rules |->
                IF rules[i].fromUtc = at THEN rules[i].penalty ELSE 0])
        ordered == Ascending(InstantsOf(policies))
    IN  [refundable |-> \A p \in DOMAIN policies : policies[p].refundable,
         rules |-> [k \in DOMAIN ordered |->
            [fromUtc |-> ordered[k],
             penalty |-> SumFunction([p \in DOMAIN policies |->
                            Own(policies[p].rules, ordered[k])])]]]

MergeCancellationPolicies(policies) ==
    LET ordered == Ascending(InstantsOf(policies))
    IN  IF Len(policies) = 1 THEN policies[1]
        ELSE [refundable |-> \A p \in DOMAIN policies : policies[p].refundable,
              rules |-> [k \in DOMAIN ordered |->
                [fromUtc |-> ordered[k],
                 penalty |-> SumFunction([p \in DOMAIN policies |->
                                PenaltyFor(policies[p].rules, ordered[k])])]]]

\* retrieve (BookingDetail): fares and policies are per room.  Fares are not
\* negative, so a sum overflows as soon as one of its parts does.
Retrieve(reference, answer) ==
    LET rooms    == answer.rooms
        currency == rooms[1].currency
        nets     == [i \in DOMAIN rooms |-> NetOf(rooms[i], currency)]
        amounts  == [i \in DOMAIN rooms |-> nets[i].amount]
        rules(i) == MapCancellationPolicy(rooms[i].rows, nets[i])
        merged   == MergeCancellationPolicies([i \in DOMAIN rooms |->
                        [refundable |-> rooms[i].refundable,
                         rules |-> CHOOSE r \in rules(i) : TRUE]])
    IN  IF ~Succeeded(answer) THEN Refusal(answer)
        ELSE IF rooms = <<>> THEN Failed("supplier_rejected")
        ELSE IF \E i \in DOMAIN rooms : rooms[i].currency # currency THEN Failed("invalid_request")
        ELSE IF ~Safe(SumFunction(amounts)) \/ \E i \in DOMAIN rooms : rules(i) = {}
             THEN Failed("conversion")
        ELSE IF MapBookingStatus(answer.bookingStatus) = {} THEN Failed("invalid_request")
        ELSE IF \E k \in DOMAIN merged.rules : ~Safe(merged.rules[k].penalty)
             THEN Failed("conversion")
        ELSE [reference |-> IF answer.confirmationNumber = {} THEN {reference}
                            ELSE answer.confirmationNumber,
              status |-> CHOOSE s \in MapBookingStatus(answer.bookingStatus) : TRUE,
              net |-> [amount |-> SumFunction(amounts), currency |-> currency],
              policy |-> merged]

\* cancel: Cancel, then the record as TBO stores it now.
Cancel(reference, cancelled, detail) ==
    IF ~Succeeded(cancelled) THEN Refusal(cancelled) ELSE Retrieve(reference, detail)

==============================================================================
