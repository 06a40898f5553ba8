--------------------------- MODULE PositionTotals ---------------------------
(***************************************************************************)
(* What a position promises to the code that reads totals and net exposure:*)
(* each leg has a total; an opening fill adds its volume to one leg, an    *)
(* accepted closing fill takes exactly its volume from one leg, and nothing*)
(* else, the day roll included, moves a total.                             *)
(***************************************************************************)
EXTENDS Integers

CONSTANTS MaxLots, MaxFill

VARIABLES long, short

Init == long = 0 /\ short = 0

Open ==
    \E q \in 1..MaxFill :
        \/ long + q <= MaxLots /\ long' = long + q /\ UNCHANGED short
        \/ short + q <= MaxLots /\ short' = short + q /\ UNCHANGED long

Close ==
    \E q \in 1..MaxFill :
        \/ long >= q /\ long' = long - q /\ UNCHANGED short
        \/ short >= q /\ short' = short - q /\ UNCHANGED long

Next == Open \/ Close

Spec == Init /\ [][Next]_<<long, short>>
=============================================================================
