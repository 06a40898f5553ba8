------------------------------ MODULE Position ------------------------------
(***************************************************************************)
(* One position as the backtest and the live risk gate drive it: a fill is *)
(* applied to a request that passed close_request_is_valid on the same     *)
(* position, and the trading day may roll between any two fills.           *)
(***************************************************************************)
EXTENDS PositionBuckets

CONSTANTS
    MaxLots,        \* bound: lots a leg may hold before opening stops
    MaxFill         \* bound: volume of one fill

ASSUME MaxLotsAssumption == MaxLots \in Nat
ASSUME MaxFillAssumption == MaxFill \in Nat \ {0}

VARIABLES
    position,
    dealt        \* lots the exchange dealt on each leg, closes subtracted (external)

vars == <<position, dealt>>

Init == position = EmptyPosition /\ dealt = [l \in LegName |-> 0]

Fill ==
    \E r \in Request, quantity \in 1..MaxFill :
        /\ CloseRequestIsValid(position, r, quantity)
        /\ r.offset = "Open" => TotalQuantity(position[OpenedLeg(r)]) + quantity <= MaxLots
        /\ position' = ApplyFill(position, r, quantity)
        /\ dealt' = IF r.offset = "Open" THEN [dealt EXCEPT ![OpenedLeg(r)] = @ + quantity]
                                         ELSE [dealt EXCEPT ![ClosedLeg(r)] = @ - quantity]

Roll == position' = RollPositionToNextTradingDay(position) /\ UNCHANGED dealt

Next == Fill \/ Roll

Spec == Init /\ [][Next]_vars

-----------------------------------------------------------------------------
\* The position is two legs of non-negative buckets.
TypeOK == position \in PositionState /\ dealt \in [LegName -> Int]

(* The book never drifts from the exchange: apply_fill clamps each bucket it *)
(* spends, so a guard that counts other buckets than the fill spends would  *)
(* silently drop the excess of a close.                                    *)
BookMatchesFills == \A l \in LegName : TotalQuantity(position[l]) = dealt[l]

(* The promise kept for the rest of the runtime: an accepted close removes *)
(* exactly the volume it asked for from the leg's total, and the day roll  *)
(* changes no total.  The abstract book only knows the totals.             *)
Totals == INSTANCE PositionTotals
              WITH long  <- TotalQuantity(position["long"]),
                   short <- TotalQuantity(position["short"])
ImplementsTotals == Totals!Spec

(* Lots keep their age.  Carried lots grow only by the day roll, which     *)
(* takes everything; and a close that reaches lots opened today either left *)
(* the carried lots alone (CloseToday) or used them up first (Close).  The *)
(* exchange charges and counts the two kinds apart, so a bucket spent by   *)
(* the wrong offset makes a later legal close invalid.                     *)
LegKeepsAge(old, new) ==
    /\ new.yesterday > old.yesterday =>
           new = [today |-> 0, yesterday |-> TotalQuantity(old)]
    /\ (new.today < old.today /\ TotalQuantity(new) < TotalQuantity(old)) =>
           new.yesterday \in {old.yesterday, 0}

LotsKeepTheirAge ==
    [][\A l \in LegName : LegKeepsAge(position[l], position'[l])]_vars
=============================================================================
