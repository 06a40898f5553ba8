----------------------------- MODULE FillLedger -----------------------------
(***************************************************************************)
(* What the live order flow promises: the exchange trades lots of an order, *)
(* the runtime books them into its positions later, in any grouping, never *)
(* a lot that did not trade and never the same lot twice, and every traded *)
(* lot is eventually booked.                                               *)
(***************************************************************************)
EXTENDS Integers

CONSTANTS Refs, MaxVolume

VARIABLES traded, booked

Init == traded = [r \in Refs |-> 0] /\ booked = [r \in Refs |-> 0]

Trade(r) ==
    \E total \in (traded[r] + 1)..MaxVolume :
        /\ traded' = [traded EXCEPT ![r] = total]
        /\ UNCHANGED booked

Book(r) ==
    \E total \in (booked[r] + 1)..traded[r] :
        /\ booked' = [booked EXCEPT ![r] = total]
        /\ UNCHANGED traded

Next == \E r \in Refs : Trade(r) \/ Book(r)

Safe == Init /\ [][Next]_<<traded, booked>>
Spec == Safe /\ \A r \in Refs : WF_<<traded, booked>>(Book(r))
=============================================================================
