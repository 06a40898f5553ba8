------------------------------ MODULE OrderLife ------------------------------
(***************************************************************************)
(* What a runtime promises about each order: it trades its volume or less, *)
(* it ends once, as Filled exactly when all was traded, and a refusal or a *)
(* cancel trades nothing.                                                  *)
(***************************************************************************)
EXTENDS Integers

CONSTANTS Ids, MaxVolume

VARIABLES
    volume,     \* what was asked for, 0 before the order is sent
    life        \* state and volume traded

Init == /\ volume = [i \in Ids |-> 0]
        /\ life = [i \in Ids |-> [state |-> "new", filled |-> 0]]

Send(i, v) == /\ volume[i] = 0
              /\ volume' = [volume EXCEPT ![i] = v]
              /\ UNCHANGED life

Accept(i) == /\ volume[i] > 0 /\ life[i].state = "new"
             /\ life' = [life EXCEPT ![i].state = "Accepted"]
             /\ UNCHANGED volume

Trade(i, v) == /\ life[i].state \in {"new", "Accepted"} /\ life[i].filled + v <= volume[i]
               /\ life' = [life EXCEPT ![i] =
                      [state  |-> IF @.filled + v = volume[i] THEN "Filled" ELSE "Accepted",
                       filled |-> @.filled + v]]
               /\ UNCHANGED volume

End(i, state) == /\ volume[i] > 0 /\ life[i].state \in {"new", "Accepted"}
                 /\ life' = [life EXCEPT ![i].state = state]
                 /\ UNCHANGED volume

Next == \E i \in Ids : \/ \E v \in 1..MaxVolume : Send(i, v)
                       \/ Accept(i)
                       \/ \E v \in 1..volume[i] : Trade(i, v)
                       \/ \E state \in {"Cancelled", "Rejected"} : End(i, state)

Spec == Init /\ [][Next]_<<volume, life>>
=============================================================================
