--------------------------- MODULE PositionBuckets ---------------------------
(***************************************************************************)
(* The bucketed futures position of the runtime (PositionState) and the    *)
(* only three operations that change it: a fill (apply_fill), the guard    *)
(* that protects a closing fill (close_request_is_valid) and the roll to   *)
(* the next trading day.  A position has a long and a short leg, each split*)
(* into lots opened today and lots carried from earlier days.  Quantities  *)
(* are modelled; average prices and realized profit are not.               *)
(***************************************************************************)
EXTENDS Integers

CONSTANT Exchanges      \* exchanges the instruments trade on, e.g. "SHFE", "DCE"

Sides   == {"Buy", "Sell"}
Offsets == {"Open", "Close", "CloseYesterday", "CloseToday"}
Request == [side : Sides, offset : Offsets, exchange : Exchanges]

LegName == {"long", "short"}
Leg     == [today : Nat, yesterday : Nat]
PositionState == [LegName -> Leg]

EmptyPosition == [l \in LegName |-> [today |-> 0, yesterday |-> 0]]

TotalQuantity(leg) == leg.today + leg.yesterday
NetQuantity(p) == TotalQuantity(p["long"]) - TotalQuantity(p["short"])

MinOf(a, b) == IF a <= b THEN a ELSE b

\* A buy opens the long leg or closes the short one, a sell the reverse.
OpenedLeg(r) == IF r.side = "Buy" THEN "long" ELSE "short"
ClosedLeg(r) == IF r.side = "Buy" THEN "short" ELSE "long"

ExchangeUsesCloseAsCloseYesterday(x) == x \in {"SHFE", "INE"}

CloseableIgnoringExchange(leg, r) ==
    CASE r.offset = "CloseToday"     -> leg.today
      [] r.offset = "CloseYesterday" -> leg.yesterday
      [] OTHER -> TotalQuantity(leg)

\* The lots of the closed leg that a closing request may consume.
CloseableQuantity(leg, r) ==
    CASE r.offset = "CloseToday"     -> leg.today
      [] r.offset = "CloseYesterday" -> leg.yesterday
      [] OTHER -> IF ExchangeUsesCloseAsCloseYesterday(r.exchange)
                  THEN leg.yesterday
                  ELSE TotalQuantity(leg)

CloseRequestIsValid(p, r, volume) ==
    \/ r.offset = "Open"
    \/ volume > 0 /\ CloseableQuantity(p[ClosedLeg(r)], r) >= volume

\* close_long_bucket and close_short_bucket: a bucket never goes below zero.
CloseBucket(bucket, quantity) == bucket - MinOf(bucket, quantity)

CloseLegNewestFirst(leg, r, quantity) ==
    IF r.offset = "CloseYesterday" \/ (r.offset = "Close" /\ ExchangeUsesCloseAsCloseYesterday(r.exchange))
    THEN [leg EXCEPT !.yesterday = CloseBucket(@, quantity)]
    ELSE LET fromToday == MinOf(leg.today, quantity)
         IN  [today     |-> CloseBucket(leg.today, fromToday),
              yesterday |-> CloseBucket(leg.yesterday, quantity - fromToday)]

\* A plain Close takes the older lots first and the rest from today.
CloseLeg(leg, r, quantity) ==
    IF r.offset = "CloseToday"
    THEN [leg EXCEPT !.today = CloseBucket(@, quantity)]
    ELSE IF r.offset = "CloseYesterday" \/ ExchangeUsesCloseAsCloseYesterday(r.exchange)
    THEN [leg EXCEPT !.yesterday = CloseBucket(@, quantity)]
    ELSE LET fromYesterday == MinOf(leg.yesterday, quantity)
         IN  [today     |-> CloseBucket(leg.today, quantity - fromYesterday),
              yesterday |-> CloseBucket(leg.yesterday, fromYesterday)]

ApplyFillBySign(p, r, quantity) ==
    IF quantity <= 0 THEN p
    ELSE IF r.offset = "Open"
         THEN [p EXCEPT ![OpenedLeg(r)].today = IF r.side = "Buy" THEN @ + quantity ELSE @ - quantity]
         ELSE [p EXCEPT ![ClosedLeg(r)] = CloseLeg(@, r, quantity)]

ApplyFill(p, r, quantity) ==
    IF quantity <= 0 THEN p
    ELSE IF r.offset = "Open"
         THEN [p EXCEPT ![OpenedLeg(r)].today = @ + quantity]
         ELSE [p EXCEPT ![ClosedLeg(r)] = CloseLeg(@, r, quantity)]

RollOverwritingYesterday(p) ==
    [l \in LegName |-> [today |-> 0, yesterday |-> p[l].today]]

RollPositionToNextTradingDay(p) ==
    [l \in LegName |-> [today |-> 0, yesterday |-> TotalQuantity(p[l])]]
=============================================================================
