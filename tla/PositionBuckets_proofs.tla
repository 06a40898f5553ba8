----------------------- MODULE PositionBuckets_proofs -----------------------
(***************************************************************************)
(* What one operation on a position does to its totals, for every position *)
(* and every request.                                                      *)
(***************************************************************************)
EXTENDS PositionBuckets, TLAPS

(* A fill always leaves two legs of non-negative buckets, whether or not it *)
(* was checked first: apply_fill clamps each bucket it spends.             *)
LEMMA ApplyFillType ==
    ASSUME NEW p \in PositionState, NEW r \in Request, NEW q \in Int
    PROVE  ApplyFill(p, r, q) \in PositionState
<1> USE DEF PositionState, Leg, LegName, Request, Offsets, Sides
<1>1. CASE q <= 0
  BY <1>1 DEF ApplyFill
<1>2. CASE q > 0 /\ r.offset = "Open"
  BY <1>2 DEF ApplyFill, OpenedLeg
<1>3. CASE q > 0 /\ r.offset # "Open"
  <2>1. CloseLeg(p[ClosedLeg(r)], r, q) \in Leg
    BY <1>3 DEF CloseLeg, CloseBucket, MinOf, ClosedLeg
  <2>2. QED
    BY <1>3, <2>1 DEF ApplyFill, ClosedLeg
<1>4. QED
  BY <1>1, <1>2, <1>3

(* The day roll keeps the type and moves no total (roll_position_to_next_   *)
(* trading_day adds today's lots to yesterday's and zeroes today).         *)
LEMMA RollKeepsTotals ==
    ASSUME NEW p \in PositionState
    PROVE  /\ RollPositionToNextTradingDay(p) \in PositionState
           /\ \A l \in LegName :
                 TotalQuantity(RollPositionToNextTradingDay(p)[l]) = TotalQuantity(p[l])
  BY DEF PositionState, Leg, LegName, RollPositionToNextTradingDay, TotalQuantity

(* An opening fill adds its volume to the leg it opens and to no other.    *)
LEMMA OpenIsExact ==
    ASSUME NEW p \in PositionState, NEW r \in Request, NEW q \in Nat \ {0},
           r.offset = "Open"
    PROVE  /\ TotalQuantity(ApplyFill(p, r, q)[OpenedLeg(r)])
                 = TotalQuantity(p[OpenedLeg(r)]) + q
           /\ \A l \in LegName \ {OpenedLeg(r)} : ApplyFill(p, r, q)[l] = p[l]
  BY DEF PositionState, Leg, LegName, Request, Sides, Offsets, ApplyFill, OpenedLeg, TotalQuantity

(* On one leg, a close of any size takes the smaller of its volume and the  *)
(* closeable quantity: the guard counts the buckets that the fill spends.  *)
LEMMA CloseLegTakesCloseable ==
    ASSUME NEW leg \in Leg, NEW r \in Request, NEW q \in Nat, r.offset # "Open"
    PROVE  /\ CloseableQuantity(leg, r) \in 0..TotalQuantity(leg)
           /\ TotalQuantity(CloseLeg(leg, r, q))
                 = TotalQuantity(leg) - MinOf(q, CloseableQuantity(leg, r))
<1> DEFINE d == leg.today
           y == leg.yesterday
<1>0. d \in Nat /\ y \in Nat /\ leg = [today |-> d, yesterday |-> y]
  BY DEF Leg
<1>1. CASE r.offset = "CloseToday"
  <2>1. CloseableQuantity(leg, r) = d
    BY <1>1 DEF CloseableQuantity
  <2>2. CloseLeg(leg, r, q) = [today |-> d - MinOf(d, q), yesterday |-> y]
    BY <1>0, <1>1 DEF CloseLeg, CloseBucket
  <2>3. QED
    BY <1>0, <2>1, <2>2 DEF TotalQuantity, MinOf
<1>2. CASE r.offset = "CloseYesterday" \/ (r.offset = "Close" /\ ExchangeUsesCloseAsCloseYesterday(r.exchange))
  <2>1. CloseableQuantity(leg, r) = y
    BY <1>2 DEF CloseableQuantity
  <2>2. CloseLeg(leg, r, q) = [today |-> d, yesterday |-> y - MinOf(y, q)]
    BY <1>0, <1>2 DEF CloseLeg, CloseBucket
  <2>3. QED
    BY <1>0, <2>1, <2>2 DEF TotalQuantity, MinOf
<1>3. CASE r.offset = "Close" /\ ~ ExchangeUsesCloseAsCloseYesterday(r.exchange)
  <2>1. CloseableQuantity(leg, r) = d + y
    BY <1>3 DEF CloseableQuantity, TotalQuantity
  <2>2. CloseLeg(leg, r, q) = [today     |-> d - MinOf(d, q - MinOf(y, q)),
                               yesterday |-> y - MinOf(y, MinOf(y, q))]
    BY <1>0, <1>3 DEF CloseLeg, CloseBucket
  <2>3. QED
    BY <1>0, <2>1, <2>2 DEF TotalQuantity, MinOf
<1>4. QED
  BY <1>1, <1>2, <1>3 DEF Request, Offsets

(* The same on the whole position, whose other leg a close leaves alone.    *)
LEMMA CloseTakesCloseable ==
    ASSUME NEW p \in PositionState, NEW r \in Request, NEW q \in Nat \ {0},
           r.offset # "Open"
    PROVE  LET c == ClosedLeg(r)
           IN  /\ CloseableQuantity(p[c], r) \in 0..TotalQuantity(p[c])
               /\ TotalQuantity(ApplyFill(p, r, q)[c])
                     = TotalQuantity(p[c]) - MinOf(q, CloseableQuantity(p[c], r))
               /\ \A l \in LegName \ {c} : ApplyFill(p, r, q)[l] = p[l]
<1> DEFINE c == ClosedLeg(r)
<1>1. c \in LegName /\ p[c] \in Leg
  BY DEF ClosedLeg, LegName, PositionState
<1>2. /\ CloseableQuantity(p[c], r) \in 0..TotalQuantity(p[c])
      /\ TotalQuantity(CloseLeg(p[c], r, q))
            = TotalQuantity(p[c]) - MinOf(q, CloseableQuantity(p[c], r))
  BY <1>1, CloseLegTakesCloseable
<1>3. ApplyFill(p, r, q) = [p EXCEPT ![c] = CloseLeg(p[c], r, q)]
  BY DEF ApplyFill
<1>4. QED
  BY <1>1, <1>2, <1>3 DEF PositionState

(* An accepted closing fill takes exactly its volume from the leg it closes.*)
LEMMA AcceptedCloseIsExact ==
    ASSUME NEW p \in PositionState, NEW r \in Request, NEW q \in Nat \ {0},
           r.offset # "Open", CloseRequestIsValid(p, r, q)
    PROVE  /\ TotalQuantity(ApplyFill(p, r, q)[ClosedLeg(r)])
                 = TotalQuantity(p[ClosedLeg(r)]) - q
           /\ q <= TotalQuantity(p[ClosedLeg(r)])
           /\ \A l \in LegName \ {ClosedLeg(r)} : ApplyFill(p, r, q)[l] = p[l]
<1>1. CloseableQuantity(p[ClosedLeg(r)], r) >= q
  BY DEF CloseRequestIsValid
<1>2. TotalQuantity(p[ClosedLeg(r)]) \in Nat
  BY DEF PositionState, Leg, LegName, ClosedLeg, TotalQuantity
<1>3. QED
  BY <1>1, <1>2, CloseTakesCloseable DEF MinOf

(* The clamp is not harmless when the guard is skipped: a close larger than *)
(* the closeable quantity takes only what is there, and the rest of the    *)
(* fill disappears from the books.                                         *)
THEOREM UncheckedCloseLosesTheExcess ==
    ASSUME NEW p \in PositionState, NEW r \in Request, NEW q \in Nat \ {0},
           r.offset # "Open", ~ CloseRequestIsValid(p, r, q)
    PROVE  TotalQuantity(ApplyFill(p, r, q)[ClosedLeg(r)]) > TotalQuantity(p[ClosedLeg(r)]) - q
<1> DEFINE c == ClosedLeg(r)
<1>1. TotalQuantity(p[c]) \in Nat
  BY DEF PositionState, Leg, LegName, ClosedLeg, TotalQuantity
<1>2. /\ CloseableQuantity(p[c], r) \in 0..TotalQuantity(p[c])
      /\ TotalQuantity(ApplyFill(p, r, q)[c])
            = TotalQuantity(p[c]) - MinOf(q, CloseableQuantity(p[c], r))
  BY CloseTakesCloseable
<1>3. CloseableQuantity(p[c], r) < q
  BY <1>1, <1>2 DEF CloseRequestIsValid
<1>4. QED
  BY <1>1, <1>2, <1>3 DEF MinOf
=============================================================================
