------------------------------- MODULE Pricing -------------------------------
(***************************************************************************)
(* Choice of the markup rule (apps/api/src/pricing/rules.ts) and the price *)
(* it leads to (resolve.ts).  A column that is null is Unset.  What throws *)
(* answers with the empty set, what resolves with the set of one result.   *)
(***************************************************************************)
EXTENDS Money, SequencesExt

CONSTANT Unset

Whole == 10000      \* basis points of one

\* The equality-scoped columns, from the broadest to the narrowest.
Scopes == <<"agencyId", "channel", "vertical", "supplierCode", "destination">>

Banded(rule) == rule.travelFrom # Unset \/ rule.travelTo # Unset

\* assertValidPricingRule.
ValidPricingRule(rule) ==
    /\ rule.valueType = "percent" <=> rule.currency = Unset
    /\ Unset \in {rule.travelFrom, rule.travelTo} \/ rule.travelFrom <= rule.travelTo
    /\ rule.commissionSplitBps = Unset \/ rule.commissionSplitBps \in 0..Whole

InBand(rule, date) ==
    /\ date # Unset
    /\ rule.travelFrom = Unset \/ date >= rule.travelFrom
    /\ rule.travelTo = Unset \/ date <= rule.travelTo

RuleMatchesContext(rule, context) ==
    /\ rule.active
    /\ \A i \in DOMAIN Scopes :
          rule.scope[Scopes[i]] \in {Unset, context.scope[Scopes[i]]}
    /\ Banded(rule) => InBand(rule, context.travelDate)

ScopeBits == {1, 2, 4, 8, 16, 32}

\* The bits a rule sets: bit 2^(i-1) for the i-th scope, 32 for the date band.
RuleBits(rule) ==
    {bit \in ScopeBits :
        \/ bit = 32 /\ Banded(rule)
        \/ \E i \in DOMAIN Scopes : bit = 2 ^ (i - 1) /\ rule.scope[Scopes[i]] # Unset}

\* A count of the constrained columns in place of their weights.
RuleBreadth(rule) == Cardinality(RuleBits(rule))

RuleSpecificity(rule) == SumFunctionOnSet([bit \in ScopeBits |-> bit], RuleBits(rule))

\* The comparison of the loop without the last tiebreak.
TakesOverWithoutId(rule, winner) ==
    \/ RuleSpecificity(rule) > RuleSpecificity(winner)
    \/ /\ RuleSpecificity(rule) = RuleSpecificity(winner)
       /\ rule.priority < winner.priority

TakesOver(rule, winner) ==
    \/ RuleSpecificity(rule) > RuleSpecificity(winner)
    \/ /\ RuleSpecificity(rule) = RuleSpecificity(winner)
       /\ \/ rule.priority < winner.priority
          \/ rule.priority = winner.priority /\ rule.id < winner.id

\* The loop of selectRule: the empty set where the code returns null.
SelectRule(rules, context) ==
    LET Visit(winner, rule) ==
            IF RuleMatchesContext(rule, context) /\ \A w \in winner : TakesOver(rule, w)
            THEN {rule}
            ELSE winner
    IN  FoldLeft(Visit, {}, rules)

------------------------------------------------------------------------------
\* assertValidSettlement.
SettlementAccepted(net, settlement) ==
    /\ settlement.currency # net.currency
    /\ settlement.rate.from = net.currency
    /\ settlement.rate.to = settlement.currency
    /\ settlement.rate.numerator > 0
    /\ settlement.bufferBps \in 0..Whole

Converted(net, settlement) ==
    MultiplyByScalar(net.amount, settlement.rate.numerator, settlement.rate.denominator)

\* The net in the sell currency; the stored rate first, then the buffer.  The
\* code adds 1 to the buffer in floating point: the exact sum stands for it.
NetBasis(net, settlement) ==
    IF settlement = Unset THEN net.amount
    ELSE MultiplyByScalar(Converted(net, settlement), Whole + settlement.bufferBps, Whole)

SellCurrency(net, settlement) ==
    IF settlement = Unset THEN net.currency ELSE settlement.currency

Quantity(rule, context) ==
    CASE rule.valueType = "per_night" -> context.nights
      [] rule.valueType = "per_pax" -> context.paxCount
      [] OTHER -> 1

\* ruleMarkup does not throw.
MarkupDefined(rule, currency, context) ==
    /\ Safe(rule.value)
    /\ \/ rule.valueType = "percent"
       \/ rule.currency = currency /\ Quantity(rule, context) \notin {Unset, 0}

RuleMarkup(rule, basis, context) ==
    IF rule.valueType = "percent"
    THEN MultiplyByScalar(basis, rule.value, Whole)
    ELSE rule.value * Quantity(rule, context)

\* A discount is applied as it stands, even below zero.
ClampedMarkupNever(basis, markup) == markup

\* A discount takes the price to zero at most.
ClampedMarkup(basis, markup) == IF basis + markup < 0 THEN -basis ELSE markup

\* Taxable base and VAT of a pre-tax price: carved out of it, or added on top.
VatParts(preTax, vat) ==
    CASE vat.mode = "inclusive" -> Allocate(preTax, <<Whole, vat.rateBps>>)
      [] vat.mode = "exclusive" -> <<preTax, MultiplyByScalar(preTax, vat.rateBps, Whole)>>
      [] vat.mode = "exempt"    -> <<preTax, 0>>

\* The agency's share of the markup and the tenant's, agency first.
CommissionSplit(rule, markup) ==
    Allocate(markup, <<rule.commissionSplitBps, Whole - rule.commissionSplitBps>>)

\* The markup before the clamp: zero with no rule.
RawMarkup(fired, basis, context) ==
    IF fired = {} THEN 0 ELSE RuleMarkup(CHOOSE rule \in fired : TRUE, basis, context)

\* The result of resolvePrice once nothing throws.
Resolution(net, context, fired, options) ==
    LET basis  == NetBasis(net, options.settlement)
        markup == ClampedMarkup(basis, RawMarkup(fired, basis, context))
        parts  == VatParts(basis + markup, options.vat)
        onTop  == IF options.vat.mode = "exclusive" THEN <<parts[2]>> ELSE <<>>
    IN  [sell        |-> basis + markup + SumFunction(onTop),
         net         |-> basis,
         markup      |-> markup,
         taxableBase |-> parts[1],
         vat         |-> parts[2],
         components  |-> <<basis, markup>> \o onTop,
         commissionSplit |->
             {CommissionSplit(rule, markup) :
                 rule \in {r \in fired : r.commissionSplitBps # Unset}},
         firedRule   |-> fired]

\* Every input check and every overflow check of resolvePrice.
Resolves(net, context, rules, options) ==
    LET basis  == NetBasis(net, options.settlement)
        fired  == SelectRule(rules, context)
        markup == RawMarkup(fired, basis, context)
    IN  /\ net.amount >= 0
        /\ options.vat.rateBps \in 0..Whole
        /\ options.settlement # Unset =>
              /\ SettlementAccepted(net, options.settlement)
              /\ Safe(Converted(net, options.settlement))
        /\ Safe(basis)
        /\ \A i \in DOMAIN rules : ValidPricingRule(rules[i])
        /\ \A rule \in fired :
              MarkupDefined(rule, SellCurrency(net, options.settlement), context)
        /\ Safe(markup) /\ Safe(basis + markup)
        /\ Safe(Resolution(net, context, fired, options).vat)
        /\ Safe(Resolution(net, context, fired, options).sell)

ResolvePrice(net, context, rules, options) ==
    IF Resolves(net, context, rules, options)
    THEN {Resolution(net, context, SelectRule(rules, context), options)}
    ELSE {}

==============================================================================
