------------------------------ MODULE PolicyViews ------------------------------
(***************************************************************************)
(* Where a person reads the fee of a cancellation: the preview of the API  *)
(* (booking.service.ts, booking.controller.ts), the lines of the voucher   *)
(* (packages/documents/src/voucher-content.ts, format.ts) and the timeline *)
(* of the portals (packages/ui/src/widgets/policyTimelineModel.ts,         *)
(* PolicyTimeline.tsx, formatMoney.ts).  Each reads the stored policy on   *)
(* its own.  A printed amount is its sign, its units and its minor digits; *)
(* words, colours and locales are left out.                                *)
(***************************************************************************)
EXTENDS TboAdapter, Pricing

CONSTANTS TicksPerMinute,
          CldrDigits    \* the minor digits Intl knows of each currency

ASSUME TicksAssumption == TicksPerMinute \in Nat \ {0}
------------------------------------------------------------------------------
\* What the booking item charges for a cancellation at an instant, the stored
\* penalty in the supplier's currency; before the first rule, none of the sale's.
BuildPreview(item, at) ==
    LET policy  == item.policy
        penalty == IF ResolvePenaltyAt(policy.rules, at) = {}
                   THEN [amount |-> 0, currency |-> item.sell.currency]
                   ELSE [amount |-> PenaltyFor(policy.rules, at), currency |-> policy.currency]
    IN  [penalty |-> penalty, refundable |-> policy.refundable, asOf |-> at,
         refund  |-> IF penalty.currency = item.sell.currency
                     THEN [item.sell EXCEPT !.amount = @ - penalty.amount] ELSE Unset]

\* previewCancellation: the set of the one preview, empty where it is refused.
PreviewCancellation(item, at) ==
    {preview \in {BuildPreview(item, at)} : item.state \in {"confirmed", "pending_confirmation"}}
------------------------------------------------------------------------------
\* A decimal of so many minor digits.
Decimal(amount, digits) ==
    [negative |-> amount < 0, digits |-> digits,
     units |-> Magnitude(amount) \div 10 ^ digits, minor |-> Magnitude(amount) % 10 ^ digits]

\* The table of format.ts.
DocumentDigits(currency) ==
    CASE currency \in {"BHD", "IQD", "JOD", "KWD", "LYD", "OMR", "TND"} -> 3
      [] currency \in {"JPY", "KRW", "VND"} -> 0
      [] OTHER -> 2

DocumentMoney(money) == Decimal(money.amount, DocumentDigits(money.currency))

\* formatUtcInstant: the minute, its seconds dropped.
FormatUtcInstant(at) == at \div TicksPerMinute

\* policyLines, after the line that says whether the booking is refundable.
PolicyLines(policy) ==
    [i \in DOMAIN policy.rules |->
        [from |-> FormatUtcInstant(policy.rules[i].fromUtc),
         free |-> policy.rules[i].penalty = 0,
         money |-> DocumentMoney([amount |-> policy.rules[i].penalty, currency |-> policy.currency])]]
------------------------------------------------------------------------------
\* One segment for each rule, to the next rule or for good.
RuleSegments(rules) ==
    [i \in DOMAIN rules |->
        [from |-> rules[i].fromUtc, until |-> IF i = Len(rules) THEN Unset ELSE rules[i + 1].fromUtc,
         penalty |-> rules[i].penalty]]

\* A free window before the first rule, whatever the policy.
TimelineAlwaysFree(policy) ==                                        \* mutant
    <<[from |-> Unset, until |-> IF policy.rules = <<>> THEN Unset ELSE policy.rules[1].fromUtc,
       penalty |-> Unset]>>
        \o RuleSegments(policy.rules)

\* computePolicyTimeline: a free window before the first rule only where the
\* policy is refundable, and nothing but one where there is no rule.
ComputePolicyTimeline(policy) ==
    LET free(until) == <<[from |-> Unset, until |-> until, penalty |-> Unset]>>
    IN  IF policy.rules = <<>> THEN free(Unset)
        ELSE (IF policy.refundable THEN free(policy.rules[1].fromUtc) ELSE <<>>)
                \o RuleSegments(policy.rules)

\* The first segment that holds the instant, if any.
ActiveSegment(segments, at) ==
    LET Holds(k) == /\ segments[k].from = Unset \/ at >= segments[k].from
                    /\ segments[k].until = Unset \/ at < segments[k].until
    IN  {k \in DOMAIN segments : Holds(k) /\ \A j \in 1..(k - 1) : ~Holds(j)}

SegmentWindow(segment) ==
    CASE segment.until # Unset -> <<"until", segment.until>>
      [] segment.until = Unset /\ segment.from # Unset -> <<"from", segment.from>>
      [] OTHER -> <<>>

\* formatMoney of the portals: the digits are Intl's.
PortalMoney(money) == Decimal(money.amount, CldrDigits[money.currency])

\* PolicyTimeline, a row for each segment.
PolicyTimeline(policy, at) ==
    LET segments == ComputePolicyTimeline(policy)
    IN  [k \in DOMAIN segments |->
            [free   |-> segments[k].penalty = Unset,
             money  |-> IF segments[k].penalty = Unset THEN Unset
                        ELSE PortalMoney([amount |-> segments[k].penalty, currency |-> policy.currency]),
             window |-> SegmentWindow(segments[k]),
             active |-> k \in ActiveSegment(segments, at)]]
==============================================================================
