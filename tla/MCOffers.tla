-------------------------------- MODULE MCOffers --------------------------------
(***************************************************************************)
(* What a signed offer is good for (OfferTokens): a token presented after  *)
(* its row, the key or the caller changed, and an offer checked after the  *)
(* supplier's rate, the markup rules or both moved; and whether everyone   *)
(* who reads a cancellation fee reads the same one (PolicyViews), of       *)
(* policies of up to two supplier rows, in currencies of two, three and no *)
(* minor digits.                                                           *)
(***************************************************************************)
EXTENDS MCRates, OfferTokens, PolicyViews

Issued == 1     \* the instant of every search

Ours == [key |-> "key", tenant |-> "tenant", scopes |-> {"own"}, encoding |-> "canonical"]

Presenters ==
    {Ours, [Ours EXCEPT !.scopes = {}], [Ours EXCEPT !.scopes = {"other"}],
     [Ours EXCEPT !.key = "rotated"], [Ours EXCEPT !.tenant = "neighbour"],
     [Ours EXCEPT !.encoding = "padded"]}

Context ==
    [scope |-> [column \in Range(Scopes) |-> "own"], travelDate |-> 1, nights |-> 2, paxCount |-> 2]

Usd(amount) == [amount |-> amount, currency |-> RateCurrency]

TokenInput ==
    [offer |-> [net |-> Usd(10), sell |-> Usd(12), currency |-> RateCurrency, policySnapshot |-> Unset,
                expiresAt |-> Issued + MaxOfferTtlSeconds, breakdown |-> [fx |-> {}, vat |-> Unset]],
     supplierOfferToken |-> "rate", canonicalPropertyId |-> "hotel", nationality |-> "SA",
     occupancy |-> <<[adults |-> 2, childAges |-> {0, 17}]>>, pricingContext |-> Context]

Room(adults, ages) == [adults |-> adults, childAges |-> ages]

\* What a caller might hand over, within the rules of buildRecord and not.
TokenInputs ==
    {TokenInput}
        \cup {[TokenInput EXCEPT !.offer.net = net, !.offer.sell = sell] :
                net \in {[amount |-> a, currency |-> c] : a \in {-1, 0, 10}, c \in SellCurrencies \cup {""}},
                sell \in {[amount |-> a, currency |-> c] : a \in {-1, 12}, c \in SellCurrencies}}
        \cup {[TokenInput EXCEPT !.offer.expiresAt = Issued + ttl] :
                ttl \in 0..(MaxOfferTtlSeconds + 1)}
        \cup {[TokenInput EXCEPT !.supplierOfferToken = ""]}
        \cup {[TokenInput EXCEPT !.occupancy = rooms] :
                rooms \in {<<>>, <<Room(0, {})>>, <<Room(1, {18})>>, <<Room(1, {}), Room(1, {3})>>}}

\* What may have become of the row: a column, or an amount and its hash, and
\* what they were overwritten with.
Column(column, value) == [overwritten \in {column} |-> value]

Damages ==
    {[overwritten \in {} |-> Unset], [overwritten \in {"sell", "priceHash"} |->
                                         IF overwritten = "sell" THEN 1 ELSE Unset]}
        \cup {Column("net", 9), Column("net", MaxSafeInteger + 1), Column("sell", 11),
              Column("currency", "SAR"), Column("supplierOfferToken", "other"), Column("id", "other"),
              Column("expiresAt", Issued + MaxOfferTtlSeconds + 1), Column("priceHash", Unset),
              Column("invalidatedAt", Issued), Column("checkedAt", Issued)}
        \cup {Column(column, Unset) : column \in OfferStoreColumns}

Damaged(row, damage) ==
    [column \in DOMAIN row |-> IF column \in DOMAIN damage THEN damage[column] ELSE row[column]]

Tokens ==
    [kind : {"token"}, input : TokenInputs, damage : {[overwritten \in {} |-> Unset]}, presenter : {Ours}, parses : BOOLEAN,
     checkedAt : {Unset, Issued}, now : Issued..(Issued + MaxOfferTtlSeconds + 1)]
        \cup
    [kind : {"token"}, input : {TokenInput}, damage : Damages, presenter : Presenters, parses : {TRUE},
     checkedAt : {Unset, Issued}, now : Issued..(Issued + MaxOfferTtlSeconds + 1)]

\* The columns the signature is about, and the signature.
SignedColumns ==
    {"id", "net", "sell", "currency", "supplierOfferToken", "expiresAt", "priceHash"}

\* The offers of a question, what has become of the row of one and of its
\* token, and what the caller is answered.
Offered == BuildRecord("key", "tenant", "o1", asked.input, asked.checkedAt, Issued)

RowNow(record) == Damaged(ToInsertRow(record), asked.damage)

TokenShown(record) ==
    IF ~asked.parses THEN Unset
    ELSE [TokenFor(record) EXCEPT !.signature.encoding = asked.presenter.encoding]

Verdict(record) ==
    VerifyOfferToken(asked.presenter.key, asked.presenter.tenant, {RowNow(record)}, TokenShown(record),
                     asked.presenter.scopes, asked.now)

\* Nothing that was signed was changed or is missing, and the caller is of the
\* tenant and the agency.
Genuine(record) ==
    LET row    == RowNow(record)
        caller == asked.presenter
    IN  /\ asked.parses
        /\ \A column \in SignedColumns : row[column] = ToInsertRow(record)[column]
        /\ \A column \in OfferStoreColumns : row[column] # Unset
        /\ caller.key = "key" /\ caller.tenant = "tenant" /\ caller.encoding = "canonical"
        /\ \A scope \in caller.scopes : row.pricingContext.scope["agencyId"] = scope

\* signing.ts:5-10 and errors.ts:9-14: a token is good for the price it was
\* signed over, for as long as was signed, in the tenant it was issued in and
\* for the agency of its row, and then tells all of it back; one that is not as
\* it was signed, the row or the token, is refused whatever was changed of it,
\* and by one opaque offer_not_found while the row can be read at all (amounts
\* no number holds fail before the signature: TamperingIsOpaque).  No offer
\* outlives the cap.
TokenVouchesForThePrice ==
    asked.kind = "token" =>
        \A record \in Offered :
            LET row      == RowNow(record)
                verified == Verdict(record)
                bookable == RequireBookableOffer(verified, asked.now)
                genuine  == Genuine(record)
            IN  /\ record.expiresAt <= Issued + MaxOfferTtlSeconds
                /\ ~genuine => IsRefused(verified)
                /\ ~genuine /\ Safe(row.net) /\ Safe(row.sell) => verified = Refused("offer_not_found")
                /\ genuine /\ (row.invalidatedAt # Unset \/ asked.now >= record.expiresAt) =>
                      IsRefused(verified) /\ OfferHttpStatus(verified.error) = 410
                /\ genuine /\ row.invalidatedAt = Unset /\ asked.now < record.expiresAt =>
                      /\ verified.net = asked.input.offer.net /\ verified.sell = asked.input.offer.sell
                      /\ verified.expiresAt = asked.input.offer.expiresAt
                      /\ verified.supplierOfferToken = asked.input.supplierOfferToken
                /\ ~IsRefused(bookable) =>
                      genuine /\ bookable.checkedAt \in (asked.now - BookableWindowSeconds)..asked.now

\* "A tampered amount, expiry, id, or supplier token - whether tampered in
\* flight or at rest - fails as one opaque offer_not_found" (offers.service.ts:
\* 12-15), also a stored amount tampered beyond what a number holds.
TamperingIsOpaque ==
    asked.kind = "token" =>
        \A record \in Offered : ~Genuine(record) => Verdict(record) = Refused("offer_not_found")

------------------------------------------------------------------------------
Percent(value) ==
    <<[id |-> 1, priority |-> 1, active |-> TRUE,
       scope |-> [column \in Range(Scopes) |-> Unset], travelFrom |-> Unset, travelTo |-> Unset,
       valueType |-> "percent", value |-> value, currency |-> Unset, commissionSplitBps |-> Unset]>>

Stored(numerator) ==
    [currency |-> "SAR", bufferBps |-> 200,
     rate |-> [from |-> RateCurrency, to |-> "SAR", numerator |-> numerator, denominator |-> 100]]

Policies ==
    {[refundable |-> TRUE, rules |-> <<[fromUtc |-> from, penalty |-> penalty]>>] :
        from \in 0..1, penalty \in {0, 5}}

HotelOffers ==
    [net : [amount : {8, 9}, currency : SellCurrencies], policy : Policies,
     supplierOfferToken : {"rate", "rotated"}, nationality : {"SA", "IN"}, property : {"hotel"}]

Echo == [net |-> Usd(8), policy |-> CHOOSE p \in Policies : TRUE, supplierOfferToken |-> "rate",
         nationality |-> "SA", property |-> "hotel"]

Rechecks ==
    [kind : {"recheck"}, settlement : {Unset, Stored(375)},
     rules : {<<>>, Percent(1250)}, rulesNow : {<<>>, Percent(1250)},
     checkedAt : {Unset, Issued}, ttl : {0, MinOfferTtlSeconds, MaxOfferTtlSeconds + 1},
     checked : HotelOffers \cup {Failed("sold_out"), Failed("supplier_timeout")}]

\* The offers a search may have issued at the supplier's first answer, read by
\* their tokens, and what a check of one tells.
Searched ==
    LET options == [settlement |-> asked.settlement, vat |-> [mode |-> "inclusive", rateBps |-> 1500]]
    IN  UNION {BuildRecord("key", "tenant", "o1",
                    [TokenInput EXCEPT !.offer = priced, !.supplierOfferToken = "rate"],
                    asked.checkedAt, Issued) :
                priced \in PricedOffers(Echo.net, Context, asked.rules, options, Echo.policy, Issued + 1)}

Reread(token, rows) == VerifyOfferToken("key", "tenant", rows, token, {"own"}, Issued)

Stands(token, rows) == ~IsRefused(RequireBookableOffer(Reread(token, rows), Issued))

Rechecked(offer) ==
    CheckOffer("key", "tenant", "o2", offer, asked.checked, asked.rulesNow, asked.ttl, Issued)

\* check.service.ts:1-12: a client told "unchanged" holds a token good for the
\* net and the terms it was shown, which are still the supplier's; any move of
\* them is told as one, is priced over again at the offer's own rate, and
\* leaves nothing bookable at the old price - unless it could not be priced.
\* A rate that did not move is told as unchanged, and costs what it did; but
\* one whose token the supplier rotated is priced by the rules of today, and
\* only while those are as they were is the sale (UnchangedMeansSamePrice).
UnchangedIsAsOffered ==
    asked.kind = "recheck" =>
        LET answer == asked.checked
            moved == answer.net # Echo.net \/ answer.policy # Echo.policy
            PricedAnew(offer) == answer.supplierOfferToken # offer.supplierOfferToken /\ asked.rules # asked.rulesNow
        IN  \A record \in Searched :
            \A offer \in {Reread(TokenFor(record), {ToInsertRow(record)})} :
            \A result \in {Rechecked(offer)} :
            IF IsRefused(result)
            THEN \/ ~Stands(TokenFor(record), result.rows) \/ IsRefused(answer)
                 \/ answer.nationality # "SA" \/ answer.property # "hotel"
                 \/ answer.net.currency \notin {RateCurrency, offer.sell.currency}
                 \/ asked.settlement = Unset /\ answer.net.currency # RateCurrency
            ELSE /\ answer.nationality = "SA"
                 /\ Stands(result.token, result.rows)
                 /\ moved => result.status # "unchanged"
                 /\ ~moved /\ ~PricedAnew(offer) =>
                       result.status = "unchanged" /\ result.sell = offer.sell
                 /\ \A told \in {Reread(result.token, result.rows)} :
                       /\ told.sell = result.sell /\ StoredSupplierNet(told) = answer.net
                       /\ told.policySnapshot = answer.policy
                       /\ told.supplierOfferToken = answer.supplierOfferToken
                       /\ answer = Echo => told.id = offer.id
                       /\ told.id # offer.id => ~Stands(TokenFor(record), result.rows)

\* "A supplier that rotates its token on check gets a superseding row
\* transparently - same price, new token", "nothing for the client to
\* re-approve" (check.service.ts:9-10 and 169-171): a client told "unchanged"
\* is sold at the price it was shown, whatever became of the rules since.
UnchangedMeansSamePrice ==
    asked.kind = "recheck" =>
        \A record \in Searched :
        \A offer \in {Reread(TokenFor(record), {ToInsertRow(record)})} :
        \A result \in {Rechecked(offer)} :
           ~IsRefused(result) /\ result.status = "unchanged" => result.sell = offer.sell

------------------------------------------------------------------------------
\* Deadlines a tick apart, some within one minute.
Digits == [USD |-> 2, SAR |-> 2, KWD |-> 3, JPY |-> 0, UGX |-> 0]

ViewRows ==
    [fromDate : 0..LastInstant, chargeType : {"Fixed"},
     charge : {[numerator |-> 0, denominator |-> 1], [numerator |-> 3, denominator |-> 1],
               [numerator |-> 12, denominator |-> 100]}]
        \cup [fromDate : {1}, chargeType : {"Percentage"}, charge : {[numerator |-> 25, denominator |-> 1]}]

Views ==
    [kind : {"view"}, rows : UpTo(2, ViewRows), refundable : BOOLEAN,
     net : [amount : {30}, currency : {"USD", "KWD", "JPY", "UGX"}],
     sell : [amount : {40}, currency : {"USD", "SAR"}],
     state : {"confirmed", "pending_confirmation", "cancelled"}]

\* What a printed decimal says, in the minor units of the currency.
Worth(printed, currency) ==
    ((printed.units * 10 ^ printed.digits + printed.minor) * 10 ^ MinorDigits(currency))
        \div 10 ^ printed.digits

\* What the last line of a voucher that has begun asks, of the minute it names.
VoucherFee(lines, minute, currency) ==
    LET begun == {i \in DOMAIN lines : lines[i].from <= minute}
        last  == CHOOSE i \in begun : \A j \in begun : j <= i
    IN  IF begun = {} \/ lines[last].free THEN 0 ELSE Worth(lines[last].money, currency)

\* The preview, the portal and the voucher, each on its own reading of the
\* stored policy, tell one fee, the supplier's: the preview and the portal at
\* the instant, the voucher, which drops the seconds of a deadline, as of the
\* end of the minute, never later than it is charged.  A refund is what the fee
\* leaves of a sale in its currency.  Only a non-refundable booking before its
\* first rule has no segment in force: it has no free window to advertise.
\* Amounts print as worth what they are where the currency has the digits the
\* adapter gave it - on vouchers, not those of UGX and others format.ts omits.
EveryViewTellsTheFee ==
    asked.kind = "view" =>
        \A rules \in MapCancellationPolicy(asked.rows, asked.net) : \A at \in Instants :
            LET currency == asked.net.currency
                policy   == [refundable |-> asked.refundable, rules |-> rules, currency |-> currency]
                item     == [state |-> asked.state, sell |-> asked.sell, policy |-> policy]
                fee      == FeeAt(asked.rows, asked.net, at)
                shown    == PolicyTimeline(policy, at)
                active   == {k \in DOMAIN shown : shown[k].active}
                minute   == FormatUtcInstant(at)
                toCome   == (minute + 1) * TicksPerMinute - 1
            IN  /\ \A preview \in PreviewCancellation(item, at) :
                      /\ preview.penalty.amount = fee
                      /\ IF preview.refund = Unset THEN currency # asked.sell.currency
                         ELSE preview.refund.amount = asked.sell.amount - fee
                /\ \A k \in active :
                      IF shown[k].free THEN fee = 0 ELSE Worth(shown[k].money, currency) = fee
                /\ active = {} => fee = 0 /\ ~asked.refundable /\ rules # <<>>
                /\ (\E k \in DOMAIN shown : shown[k].free) => asked.refundable \/ rules = <<>>
                /\ \A k \in DOMAIN shown : Len(shown[k].window) = 0 => Len(shown) = 1
                /\ DocumentDigits(currency) = MinorDigits(currency) =>
                      VoucherFee(PolicyLines(policy), minute, currency)
                          = FeeAt(asked.rows, asked.net, toCome)
==============================================================================
