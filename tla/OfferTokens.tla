------------------------------ MODULE OfferTokens ------------------------------
(***************************************************************************)
(* Signed offers (apps/api/src/offers: offers.service.ts, signing.ts,      *)
(* offer-store.ts, check.service.ts, errors.ts).  A priced search result   *)
(* becomes a row of the tenant database, and the client holds its id and a *)
(* signature over the price; every use of the token recomputes the         *)
(* signature from the row.  The signature is perfect: it is the key and    *)
(* what was signed.  What throws answers with a refusal, or with the empty *)
(* set where only a result matters.  The order in which requests reach the *)
(* rows is OfferBooking's.                                                 *)
(***************************************************************************)
EXTENDS Pricing

CONSTANTS MinOfferTtlSeconds, MaxOfferTtlSeconds, BookableWindowSeconds, MaxOfferRooms

ASSUME OfferTtlAssumption ==
    /\ MinOfferTtlSeconds \in Nat \ {0} /\ MaxOfferTtlSeconds \in Nat
    /\ MinOfferTtlSeconds <= MaxOfferTtlSeconds /\ BookableWindowSeconds \in Nat

ASSUME OfferRoomsAssumption == MaxOfferRooms \in Nat \ {0}

Refused(kind) == [error |-> kind]

IsRefused(result) == "error" \in DOMAIN result

\* Whatever a tenant configures, offers live for minutes.
ExpiryFor(configured, from) ==
    from + Min({MaxOfferTtlSeconds, Max({MinOfferTtlSeconds, configured})})

ValidMoney(money) == Safe(money.amount) /\ money.currency # ""

ValidOccupancy(rooms) ==
    /\ Len(rooms) \in 1..MaxOfferRooms
    /\ \A room \in Range(rooms) : room.adults >= 1 /\ room.childAges \subseteq 0..17
------------------------------------------------------------------------------
(* signing.ts                                                              *)

\* What is signed of a record of the tenant, the net left out.
ClaimsOfSale(tenant, record) ==                                      \* mutant
    [tenantId |-> tenant, offerId |-> record.id, sell |-> record.sell,
     net |-> record.sell, supplierOfferToken |-> record.supplierOfferToken,
     expiresAt |-> record.expiresAt]

ClaimsOf(tenant, record) ==
    [tenantId |-> tenant, offerId |-> record.id, sell |-> record.sell,
     net |-> record.net, supplierOfferToken |-> record.supplierOfferToken,
     expiresAt |-> record.expiresAt]

\* canonicalOfferClaims is injective on the claims it accepts: they stand for
\* their serialization.
CanonicalOfferClaims(claims) ==
    IF /\ "" \notin {claims.tenantId, claims.supplierOfferToken}
       /\ claims.sell.amount >= 0 /\ claims.net.amount >= 0 /\ claims.expiresAt > 0
    THEN {claims} ELSE {}

SignOfferClaims(key, claims) ==
    {[key |-> key, claims |-> signed, encoding |-> "canonical"] :
        signed \in CanonicalOfferClaims(claims)}

\* Also the spelling of the signature is the one it was minted in.
VerifyOfferClaims(key, claims, signature) == signature \in SignOfferClaims(key, claims)
------------------------------------------------------------------------------
(* issueOffer and the row                                                  *)

\* buildRecord, signed: the offer has one currency and a short life ahead.
BuildRecord(key, tenant, id, input, checkedAt, now) ==
    LET offer  == input.offer
        record == [id |-> id, net |-> offer.net, sell |-> offer.sell,
                   policySnapshot |-> offer.policySnapshot, expiresAt |-> offer.expiresAt,
                   supplierOfferToken |-> input.supplierOfferToken,
                   canonicalPropertyId |-> input.canonicalPropertyId,
                   nationality |-> input.nationality, occupancy |-> input.occupancy,
                   breakdown |-> offer.breakdown, pricingContext |-> input.pricingContext,
                   checkedAt |-> checkedAt, currency |-> offer.currency, priceHash |-> Unset,
                   invalidatedAt |-> Unset]
    IN  IF /\ ValidMoney(offer.net) /\ ValidMoney(offer.sell)
           /\ offer.net.currency = offer.currency /\ offer.sell.currency = offer.currency
           /\ "" \notin {input.supplierOfferToken, input.canonicalPropertyId, input.nationality}
           /\ ValidOccupancy(input.occupancy)
           /\ offer.expiresAt - now \in 1..MaxOfferTtlSeconds
        THEN {[record EXCEPT !.priceHash = signature] :
                 signature \in SignOfferClaims(key, ClaimsOf(tenant, record))}
        ELSE {}

TokenFor(record) == [offerId |-> record.id, signature |-> record.priceHash]

\* The table keeps two amounts and one currency, the sale's.
ToInsertRow(record) ==
    [record EXCEPT !.net = @.amount, !.sell = @.amount, !.currency = record.sell.currency]

\* A row whose amounts no number holds does not load.
ToStoredOffer(row) ==
    IF Safe(row.net) /\ Safe(row.sell)
    THEN {[row EXCEPT !.net  = [amount |-> @, currency |-> row.currency],
                      !.sell = [amount |-> @, currency |-> row.currency]]}
    ELSE {}
------------------------------------------------------------------------------
(* verifyOfferToken and requireBookableOffer                               *)

\* The columns of migration 0003, null on older rows.
OfferStoreColumns ==
    {"supplierOfferToken", "canonicalPropertyId", "nationality", "occupancy",
     "breakdown", "pricingContext"}

\* verifyRow: complete, signed as it stands, by the very signature it keeps.
VerifyRow(key, tenant, stored, signature) ==
    /\ \A column \in OfferStoreColumns : stored[column] # Unset
    /\ VerifyOfferClaims(key, ClaimsOf(tenant, stored), signature)
    /\ stored.priceHash = signature

\* rows are those of the database of the tenant that asks; scopes, the agency
\* of an agency's caller.
VerifyOfferToken(key, tenant, rows, token, scopes, now) ==
    LET found == {row \in rows : token # Unset /\ row.id = token.offerId}
        offer == CHOOSE stored \in UNION {ToStoredOffer(row) : row \in found} : TRUE
    IN  CASE found = {} -> Refused("offer_not_found")
          [] found # {} /\ \A row \in found : ToStoredOffer(row) = {} -> Refused("internal")
          [] OTHER ->
             IF \/ ~VerifyRow(key, tenant, offer, token.signature)
                \/ \E scope \in scopes : offer.pricingContext.scope["agencyId"] # scope
             THEN Refused("offer_not_found")
             ELSE IF offer.invalidatedAt # Unset THEN Refused("offer_invalidated")
             ELSE IF now >= offer.expiresAt THEN Refused("offer_expired")
             ELSE offer

RequireBookableOffer(verified, now) ==
    IF IsRefused(verified) THEN verified
    ELSE IF verified.checkedAt = Unset \/ now - verified.checkedAt > BookableWindowSeconds
         THEN Refused("offer_not_checked")
         ELSE verified

\* toOfferHttpError: what the client must act on is 4xx.
OfferHttpStatus(kind) ==
    CASE kind = "offer_not_found" -> 404
      [] kind \in {"offer_expired", "offer_invalidated", "sold_out"} -> 410
      [] kind \in {"offer_not_checked", "price_changed"} -> 409
      [] kind = "rate_limited" -> 429
      [] kind \in {"invalid_request", "supplier_rejected", "auth_failed"} -> 502
      [] kind = "supplier_unavailable" -> 503
      [] kind = "supplier_timeout" -> 504
      [] OTHER -> 500
------------------------------------------------------------------------------
(* checkOffer                                                              *)

\* price and assemblePricedOffer.
PricedOffers(net, context, rules, options, policy, expiresAt) ==
    {LET currency == SellCurrency(net, options.settlement)
     IN  [net |-> [amount |-> price.net, currency |-> currency],
          sell |-> [amount |-> price.sell, currency |-> currency], currency |-> currency,
          breakdown |-> [fx |-> IF options.settlement = Unset THEN {}
                                ELSE {[supplierNet |-> net, settlement |-> options.settlement]},
                         vat |-> options.vat],
          policySnapshot |-> policy, expiresAt |-> expiresAt]
        : price \in ResolvePrice(net, context, rules, options)}

\* The net the offer shows, in the currency it sells in.
NetAsShown(offer) == offer.net                                       \* mutant

\* The net as the supplier priced it, before any conversion.
StoredSupplierNet(offer) ==
    IF offer.breakdown.fx = {} THEN offer.net
    ELSE (CHOOSE fx \in offer.breakdown.fx : TRUE).supplierNet

\* The offer's own stored rate and buffer, never a fresh one.
CoveringSettlements(offer, net) ==
    IF net.currency = offer.sell.currency THEN {Unset}
    ELSE {s \in {fx.settlement : fx \in offer.breakdown.fx} :
             s.rate.from = net.currency /\ s.rate.to = offer.sell.currency}

\* buildSuccessor: the supplier's current truth under the rules of today, with
\* the context of the search.
Successors(key, tenant, id, offer, checked, rules, configured, now) ==
    UNION {UNION {
        BuildRecord(key, tenant, id,
            [offer |-> priced, supplierOfferToken |-> checked.supplierOfferToken,
             canonicalPropertyId |-> offer.canonicalPropertyId,
             nationality |-> offer.nationality, occupancy |-> offer.occupancy,
             pricingContext |-> offer.pricingContext], now, now)
        : priced \in PricedOffers(checked.net, offer.pricingContext, rules,
                        [settlement |-> s, vat |-> offer.breakdown.vat],
                        checked.policy, ExpiryFor(configured, now))}
        : s \in CoveringSettlements(offer, checked.net)}

\* checkOffer on a verified offer and the supplier's answer: what the client is
\* told, and the rows afterwards.  A rate that moved and cannot be priced, or
\* an echo that drifted, ends the check with the rows as they were.
CheckOffer(key, tenant, id, offer, checked, rules, configured, now) ==
    LET row  == ToInsertRow(offer)
        gone == [row EXCEPT !.invalidatedAt = now]
        same == checked.net = StoredSupplierNet(offer) /\ checked.policy = offer.policySnapshot
        next == Successors(key, tenant, id, offer, checked, rules, configured, now)
        Told(status, record, rows) ==
            [status |-> status, sell |-> record.sell, token |-> TokenFor(record), rows |-> rows]
    IN  IF "error" \in DOMAIN checked
        THEN [error |-> checked.error,
              rows  |-> {IF checked.error \in {"sold_out", "price_changed"} THEN gone ELSE row}]
        ELSE IF checked.nationality # offer.nationality \/ checked.property # offer.canonicalPropertyId
        THEN [error |-> "internal", rows |-> {row}]
        ELSE IF same /\ checked.supplierOfferToken = offer.supplierOfferToken
        THEN Told("unchanged", offer, {[row EXCEPT !.checkedAt = now]})
        ELSE IF next = {}
        THEN [error |-> IF CoveringSettlements(offer, checked.net) = {} THEN "price_changed"
                        ELSE "internal",
              rows  |-> {row}]
        ELSE LET record == CHOOSE r \in next : TRUE
             IN  Told(IF same THEN "unchanged" ELSE "price_changed", record,
                      {gone, ToInsertRow(record)})
==============================================================================
