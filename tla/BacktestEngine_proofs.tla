------------------------ MODULE BacktestEngine_proofs ------------------------
(***************************************************************************)
(* Proofs about BacktestEngine, for any strategies, requests and bounds: no*)
(* order trades more than its volume, the positions of a strategy are what *)
(* its orders traded, no order is lost on its way, its strategy hears of   *)
(* its end, and the engine keeps the life OrderLife promises.              *)
(***************************************************************************)
EXTENDS BacktestEngine, PositionBuckets_proofs, SequenceTheorems

TypeOfBooks == /\ position \in [Strategies -> PositionState]
               /\ dealt \in [Strategies -> [LegName -> Int]]

AnyOrder == [strategy : Strategies \union {NoStrategy}, request : Request,
             volume : Nat, policy : Policy, filled : Nat]

TypeOfOrders == /\ order \in [Ids -> AnyOrder] /\ sent \in 0..MaxOrders
                /\ orderQueue \in Seq(Ids)
                /\ scheduled \in [Strategies -> SUBSET Ids]
                /\ pending \in [Strategies -> Seq(Ids)]

\* The queue holds orders just sent, each once, in the order sent.
QueueIsFresh ==
    \A k \in 1..Len(orderQueue) :
        /\ orderQueue[k] <= sent
        /\ order[orderQueue[k]].filled = 0 /\ order[orderQueue[k]].volume > 0
        /\ \A j \in 1..Len(orderQueue) : j < k => orderQueue[j] < orderQueue[k]

Rest(s) == Members(pending[s]) \union scheduled[s]

\* An order that rests or waits for its time has left the queue.
RestingLeftQueue ==
    \A s \in Strategies : \A i \in Rest(s) :
        i <= sent /\ \A k \in 1..Len(orderQueue) : i # orderQueue[k]

(* No order is filled beyond its volume: partial fills are taken from what  *)
(* remains, and an immediate fill finds the order untouched.               *)
FilledWithinVolume == \A i \in Ids : order[i].filled <= order[i].volume

BooksInv == TypeOfBooks /\ BookMatchesFills
OrdersInv == TypeOfOrders /\ QueueIsFresh /\ RestingLeftQueue /\ FilledWithinVolume
IndInv == BooksInv /\ OrdersInv

-----------------------------------------------------------------------------
(* Sequences.                                                              *)

\* Removing an order from a vector leaves orders that were in it.
LEMMA WithoutKeepsMembers ==
    ASSUME NEW seq \in Seq(Ids), NEW i
    PROVE  Without(seq, i) \in Seq(Ids) /\ Members(Without(seq, i)) \subseteq Members(seq)
<1>1. CASE i \notin Members(seq)
  BY <1>1 DEF Without
<1>2. CASE i \in Members(seq)
  <2> DEFINE n == Len(seq) - 1
             p == PositionOf(seq, i)
             w == [k \in 1..n |-> IF k < p THEN seq[k] ELSE seq[k + 1]]
  <2>1. DOMAIN seq = 1..Len(seq) /\ Len(seq) \in Nat /\ \A k \in 1..Len(seq) : seq[k] \in Ids
    OBVIOUS
  <2>2. n \in Nat
    BY <1>2, <2>1 DEF Members
  <2>3. \A k \in 1..n : w[k] \in Members(seq) /\ w[k] \in Ids
    BY <2>1 DEF Members
  <2>4. w \in Seq(Ids)
    <3> HIDE DEF n
    <3>1. w \in [1..n -> Ids]
      BY <2>3
    <3> QED
      BY <2>2, <3>1, SeqDef
  <2>5. Members(w) \subseteq Members(seq)
    BY <2>3 DEF Members
  <2>6. Without(seq, i) = w
    BY <1>2 DEF Without
  <2> QED
    BY <2>4, <2>5, <2>6
<1>3. QED
  BY <1>1, <1>2

LEMMA AppendAddsMember ==
    ASSUME NEW seq \in Seq(Ids), NEW i \in Ids
    PROVE  Append(seq, i) \in Seq(Ids) /\ Members(Append(seq, i)) = Members(seq) \union {i}
<1>1. /\ Append(seq, i) \in Seq(Ids) /\ Len(Append(seq, i)) = Len(seq) + 1
      /\ \A k \in 1..Len(seq) : Append(seq, i)[k] = seq[k]
      /\ Append(seq, i)[Len(seq) + 1] = i
  BY AppendProperties
<1>2. /\ Len(seq) \in Nat /\ DOMAIN seq = 1..Len(seq)
      /\ DOMAIN Append(seq, i) = 1..(Len(seq) + 1)
  BY <1>1
<1>3. Members(seq) = {seq[k] : k \in 1..Len(seq)}
  BY <1>2 DEF Members
<1>4. Members(Append(seq, i)) = {Append(seq, i)[k] : k \in 1..(Len(seq) + 1)}
  BY <1>2 DEF Members
<1>5. Members(Append(seq, i)) \subseteq Members(seq) \union {i}
  BY <1>1, <1>2, <1>3, <1>4
<1>6. Members(seq) \union {i} \subseteq Members(Append(seq, i))
  BY <1>1, <1>2, <1>3, <1>4
<1> QED
  BY <1>1, <1>5, <1>6

-----------------------------------------------------------------------------
(* A booked fill moves the position and the lots dealt alike.              *)

LEMMA BookIsExact ==
    ASSUME IndInv, NEW s \in Strategies, NEW i \in Ids,
           NEW volume \in Nat \ {0}, NEW checked \in Nat, volume <= checked,
           CloseRequestIsValid(position[s], order[i].request, checked),
           Book(s, i, volume)
    PROVE  TypeOfBooks' /\ BookMatchesFills'
<1> DEFINE p == position[s]
           r == order[i].request
           q == ApplyFill(p, r, volume)
           l == IF r.offset = "Open" THEN OpenedLeg(r) ELSE ClosedLeg(r)
           d == IF r.offset = "Open" THEN volume ELSE 0 - volume
<1>1. p \in PositionState /\ r \in Request /\ l \in LegName /\ d \in Int
  BY DEF IndInv, BooksInv, OrdersInv, TypeOfBooks, TypeOfOrders, AnyOrder, OpenedLeg, ClosedLeg, LegName
<1>2. q \in PositionState
  BY <1>1, ApplyFillType
<1>3. /\ TotalQuantity(q[l]) = TotalQuantity(p[l]) + d
      /\ \A k \in LegName \ {l} : TotalQuantity(q[k]) = TotalQuantity(p[k])
  <2>1. CASE r.offset = "Open"
    BY <1>1, <2>1, OpenIsExact
  <2>2. CASE r.offset # "Open"
    <3>1. \A k \in LegName : TotalQuantity(p[k]) \in Nat
      BY <1>1 DEF PositionState, Leg, TotalQuantity
    <3>2. ClosedLeg(r) \in LegName
      BY <2>2, <1>1
    <3>3. CloseableQuantity(p[ClosedLeg(r)], r) \in Nat
      BY <1>1, <2>2, CloseTakesCloseable, <3>1, <3>2
    <3>4. CloseRequestIsValid(p, r, volume)
      BY <2>2, <3>3 DEF CloseRequestIsValid
    <3>5. /\ TotalQuantity(q[ClosedLeg(r)]) = TotalQuantity(p[ClosedLeg(r)]) - volume
          /\ \A k \in LegName \ {ClosedLeg(r)} : q[k] = p[k]
      BY <1>1, <2>2, <3>4, AcceptedCloseIsExact
    <3>6. l = ClosedLeg(r) /\ d = 0 - volume
      BY <2>2
    <3> QED
      BY <3>1, <3>2, <3>5, <3>6
  <2> QED
    BY <2>1, <2>2
<1>4. position' = [position EXCEPT ![s] = q]
  BY DEF Book
<1>5. dealt[s] \in [LegName -> Int] /\ \A k \in LegName : TotalQuantity(p[k]) = dealt[s][k]
  BY DEF IndInv, BooksInv, TypeOfBooks, BookMatchesFills
<1>6. dealt' = [dealt EXCEPT ![s] = [dealt[s] EXCEPT ![l] = dealt[s][l] + d]]
  <2>1. CASE r.offset = "Open"
    BY <2>1 DEF Book
  <2>2. CASE r.offset # "Open"
    <3>1. dealt[s][l] + d = dealt[s][l] - volume
      BY <2>2, <1>1, <1>5
    <3> QED
      BY <2>2, <3>1 DEF Book
  <2> QED
    BY <2>1, <2>2
<1> HIDE DEF p, q, l, d
<1>7. [dealt[s] EXCEPT ![l] = dealt[s][l] + d] \in [LegName -> Int]
  BY <1>1, <1>5
<1>8. TypeOfBooks'
  BY <1>2, <1>4, <1>6, <1>7 DEF IndInv, BooksInv, TypeOfBooks
<1>9. BookMatchesFills'
  <2> SUFFICES ASSUME NEW t \in Strategies, NEW k \in LegName
               PROVE  TotalQuantity(position'[t][k]) = dealt'[t][k]
    BY DEF BookMatchesFills
  <2>1. CASE t # s
    BY <2>1, <1>4, <1>6 DEF IndInv, BooksInv, TypeOfBooks, BookMatchesFills
  <2>2. CASE t = s
    <3>1. position'[t] = q /\ dealt'[t] = [dealt[s] EXCEPT ![l] = dealt[s][l] + d]
      BY <2>2, <1>4, <1>6 DEF IndInv, BooksInv, TypeOfBooks
    <3> QED
      BY <3>1, <1>1, <1>3, <1>5
  <2> QED
    BY <2>1, <2>2
<1> QED
  BY <1>8, <1>9
-----------------------------------------------------------------------------
(* What the actions share.                                                 *)

LEMMA BooksKept ==
    ASSUME BooksInv, UNCHANGED <<position, dealt>>
    PROVE  BooksInv'
  BY DEF BooksInv, TypeOfBooks, BookMatchesFills

\* Orders that only leave where they rest, or move there from the schedule.
LEMMA RestShrinks ==
    ASSUME OrdersInv, UNCHANGED <<order, sent, orderQueue>>,
           scheduled' \in [Strategies -> SUBSET Ids],
           pending' \in [Strategies -> Seq(Ids)],
           \A s \in Strategies : Rest(s)' \subseteq Rest(s)
    PROVE  OrdersInv'
  BY DEF OrdersInv, TypeOfOrders, QueueIsFresh, RestingLeftQueue, FilledWithinVolume

\* erase_pending_order takes the order out of both containers.
LEMMA ForgetPendingShape ==
    ASSUME OrdersInv, NEW s \in Strategies, NEW i \in Ids, ForgetPending(s, i)
    PROVE  /\ scheduled' \in [Strategies -> SUBSET Ids] /\ pending' \in [Strategies -> Seq(Ids)]
           /\ \A t \in Strategies : Rest(t)' \subseteq Rest(t)
<1>1. pending \in [Strategies -> Seq(Ids)] /\ scheduled \in [Strategies -> SUBSET Ids]
  BY DEF OrdersInv, TypeOfOrders
<1>2. /\ pending' = [pending EXCEPT ![s] = Without(pending[s], i)]
      /\ scheduled' = [scheduled EXCEPT ![s] = scheduled[s] \ {i}]
  BY DEF ForgetPending
<1>3. Without(pending[s], i) \in Seq(Ids) /\ Members(Without(pending[s], i)) \subseteq Members(pending[s])
  BY <1>1, WithoutKeepsMembers
<1>4. pending' \in [Strategies -> Seq(Ids)] /\ scheduled' \in [Strategies -> SUBSET Ids]
  BY <1>1, <1>2, <1>3
<1>5. ASSUME NEW t \in Strategies
      PROVE  Members(pending'[t]) \union scheduled'[t] \subseteq Members(pending[t]) \union scheduled[t]
  <2>1. CASE t = s
    BY <1>1, <1>2, <1>3, <2>1
  <2>2. CASE t # s
    <3>1. pending'[t] = pending[t] /\ scheduled'[t] = scheduled[t]
      BY <1>1, <1>2, <2>2
    <3> QED
      BY <3>1
  <2> QED
    BY <2>1, <2>2
<1>6. \A t \in Strategies : Rest(t)' \subseteq Rest(t)
  BY <1>5 DEF Rest, Members
<1> QED
  BY <1>4, <1>6

LEMMA ForgetPendingShrinks ==
    ASSUME OrdersInv, NEW s \in Strategies, NEW i \in Ids,
           ForgetPending(s, i), UNCHANGED <<order, sent, orderQueue>>
    PROVE  OrdersInv'
  BY ForgetPendingShape, RestShrinks

\* A fill of an order that is not queued.
LEMMA BookKeepsOrders ==
    ASSUME OrdersInv, NEW s \in Strategies, NEW i \in Ids,
           NEW volume \in Nat, volume <= Remaining(i),
           \A k \in 1..Len(orderQueue) : orderQueue[k] # i,
           Book(s, i, volume)
    PROVE  /\ order' \in [Ids -> AnyOrder]
           /\ \A j \in Ids : order'[j].filled <= order'[j].volume
           /\ \A k \in 1..Len(orderQueue) : order'[orderQueue[k]] = order[orderQueue[k]]
<1>1. order \in [Ids -> AnyOrder] /\ orderQueue \in Seq(Ids)
  BY DEF OrdersInv, TypeOfOrders
<1>2. order' = [order EXCEPT ![i] = [order[i] EXCEPT !.filled = order[i].filled + volume]]
  BY <1>1 DEF Book
<1>3. order[i] \in AnyOrder
  BY <1>1
<1>4. /\ order[i].filled + volume \in Nat
      /\ order[i].filled + volume <= order[i].volume
  BY <1>3 DEF AnyOrder, Remaining
<1>5. [order[i] EXCEPT !.filled = order[i].filled + volume] \in AnyOrder
  BY <1>3, <1>4 DEF AnyOrder
<1>6. order' \in [Ids -> AnyOrder]
  BY <1>1, <1>2, <1>5
<1>7. ASSUME NEW j \in Ids
      PROVE  order'[j].filled <= order'[j].volume
  <2>1. CASE j = i
    BY <1>1, <1>2, <1>3, <1>4, <2>1 DEF AnyOrder
  <2>2. CASE j # i
    BY <1>1, <1>2, <2>2 DEF OrdersInv, FilledWithinVolume
  <2> QED
    BY <2>1, <2>2
<1>8. \A k \in 1..Len(orderQueue) : order'[orderQueue[k]] = order[orderQueue[k]]
  BY <1>1, <1>2
<1> QED
  BY <1>6, <1>7, <1>8
-----------------------------------------------------------------------------
(* Each action keeps the invariant.                                        *)

LEMMA Initial == Init => IndInv
<1> SUFFICES ASSUME Init PROVE IndInv
  OBVIOUS
<1>1. NoOrder \in AnyOrder /\ NoOrder.filled = 0 /\ NoOrder.volume = 0
  BY RequestsAssumption DEF NoOrder, AnyOrder, NoStrategy, Policy
<1>2. TypeOfOrders
  BY <1>1, BoundsAssumption DEF Init, TypeOfOrders
<1>3. QueueIsFresh
  BY DEF Init, QueueIsFresh
<1>4. RestingLeftQueue
  BY DEF Init, RestingLeftQueue, Rest, Members
<1>5. FilledWithinVolume
  BY <1>1 DEF Init, FilledWithinVolume
<1>6. EmptyPosition \in PositionState /\ \A l \in LegName : TotalQuantity(EmptyPosition[l]) = 0
  BY DEF EmptyPosition, PositionState, Leg, TotalQuantity
<1>7. BooksInv
  BY <1>6 DEF Init, BooksInv, TypeOfBooks, BookMatchesFills
<1> QED
  BY <1>2, <1>3, <1>4, <1>5, <1>7 DEF IndInv, OrdersInv

LEMMA SendOrderKeeps ==
    ASSUME IndInv, NEW s \in Strategies, NEW r \in Requests,
           NEW volume \in 1..MaxVolume, NEW p \in Policies, SendOrder(s, r, volume, p)
    PROVE  IndInv'
<1> DEFINE i == sent + 1
           o == [strategy |-> s, request |-> r, volume |-> volume, policy |-> p, filled |-> 0]
<1>1. /\ order' = [order EXCEPT ![i] = o] /\ sent' = i
      /\ orderQueue' = Append(orderQueue, i)
      /\ UNCHANGED <<scheduled, pending, position, dealt>>
  BY DEF SendOrder
<1>2. /\ sent \in Nat /\ orderQueue \in Seq(Ids) /\ order \in [Ids -> AnyOrder]
      /\ scheduled \in [Strategies -> SUBSET Ids] /\ pending \in [Strategies -> Seq(Ids)]
  BY BoundsAssumption DEF IndInv, OrdersInv, TypeOfOrders
<1>3. i \in Ids /\ sent' \in 0..MaxOrders
  BY <1>1, <1>2, BoundsAssumption DEF SendOrder, Ids
<1>4. o \in AnyOrder /\ o.filled = 0 /\ o.volume > 0
  BY RequestsAssumption, PoliciesAssumption, BoundsAssumption DEF AnyOrder
<1>5. /\ Append(orderQueue, i) \in Seq(Ids) /\ Len(Append(orderQueue, i)) = Len(orderQueue) + 1
      /\ \A k \in 1..Len(orderQueue) : Append(orderQueue, i)[k] = orderQueue[k]
      /\ Append(orderQueue, i)[Len(orderQueue) + 1] = i
  BY <1>2, <1>3, AppendProperties
<1>6. order' \in [Ids -> AnyOrder] /\ order'[i] = o /\ \A j \in Ids \ {i} : order'[j] = order[j]
  BY <1>1, <1>2, <1>3, <1>4
<1>7. Len(orderQueue) \in Nat /\ \A k \in 1..Len(orderQueue) : orderQueue[k] \in Ids /\ orderQueue[k] <= sent
  BY <1>2 DEF IndInv, OrdersInv, QueueIsFresh
<1> HIDE DEF o
<1>8. QueueIsFresh'
  <2> SUFFICES ASSUME NEW k \in 1..(Len(orderQueue) + 1)
               PROVE  /\ orderQueue'[k] <= sent'
                      /\ order'[orderQueue'[k]].filled = 0 /\ order'[orderQueue'[k]].volume > 0
                      /\ \A j \in 1..(Len(orderQueue) + 1) : j < k => orderQueue'[j] < orderQueue'[k]
    BY <1>1, <1>5 DEF QueueIsFresh
  <2>1. CASE k \in 1..Len(orderQueue)
    <3>1. orderQueue'[k] = orderQueue[k] /\ orderQueue[k] \in Ids /\ orderQueue[k] <= sent
      BY <1>1, <1>5, <1>7, <2>1
    <3>2. order'[orderQueue[k]] = order[orderQueue[k]]
      BY <1>2, <1>6, <3>1 DEF Ids
    <3>3. ASSUME NEW j \in 1..(Len(orderQueue) + 1), j < k
          PROVE  orderQueue'[j] < orderQueue'[k]
      BY <1>1, <1>5, <1>7, <2>1, <3>1, <3>3 DEF IndInv, OrdersInv, QueueIsFresh
    <3> QED
      BY <1>1, <1>2, <2>1, <3>1, <3>2, <3>3 DEF IndInv, OrdersInv, QueueIsFresh, Ids
  <2>2. CASE k = Len(orderQueue) + 1
    <3>1. orderQueue'[k] = i
      BY <1>1, <1>5, <2>2
    <3>2. ASSUME NEW j \in 1..(Len(orderQueue) + 1), j < k
          PROVE  orderQueue'[j] < i
      BY <1>1, <1>2, <1>5, <1>7, <2>2, <3>2 DEF Ids
    <3> QED
      BY <1>1, <1>2, <1>4, <1>6, <3>1, <3>2
  <2> QED
    BY <1>7, <2>1, <2>2
<1>9. RestingLeftQueue'
  <2> SUFFICES ASSUME NEW t \in Strategies, NEW j \in Rest(t)
               PROVE  j <= sent' /\ \A k \in 1..(Len(orderQueue) + 1) : j # orderQueue'[k]
    BY <1>1, <1>5 DEF RestingLeftQueue, Rest, Members
  <2>1. j <= sent /\ \A k \in 1..Len(orderQueue) : j # orderQueue[k]
    BY DEF IndInv, OrdersInv, RestingLeftQueue
  <2>2. j \in Ids
    BY <1>2 DEF Rest, Members
  <2>3. j < i
    BY <1>2, <2>1, <2>2 DEF Ids
  <2>4. ASSUME NEW k \in 1..(Len(orderQueue) + 1) PROVE j # orderQueue'[k]
    <3>1. CASE k \in 1..Len(orderQueue)
      BY <1>1, <1>5, <2>1, <3>1
    <3>2. CASE k = Len(orderQueue) + 1
      BY <1>1, <1>5, <2>2, <2>3, <3>2 DEF Ids
    <3> QED
      BY <1>7, <3>1, <3>2
  <2> QED
    BY <1>1, <1>2, <2>2, <2>3, <2>4 DEF Ids
<1>10. FilledWithinVolume'
  BY <1>4, <1>6 DEF IndInv, OrdersInv, FilledWithinVolume, AnyOrder
<1>11. TypeOfOrders'
  BY <1>1, <1>2, <1>3, <1>5, <1>6 DEF TypeOfOrders
<1>12. BooksInv'
  BY <1>1, BooksKept DEF IndInv
<1> QED
  BY <1>8, <1>9, <1>10, <1>11, <1>12 DEF IndInv, OrdersInv

LEMMA CancelOrderKeeps ==
    ASSUME IndInv, NEW s \in Strategies, NEW i \in Ids, CancelOrder(s, i)
    PROVE  IndInv'
<1>1. OrdersInv'
  BY ForgetPendingShrinks DEF IndInv, CancelOrder
<1>2. BooksInv'
  BY BooksKept DEF IndInv, CancelOrder
<1> QED
  BY <1>1, <1>2 DEF IndInv

LEMMA NewDayTickKeeps ==
    ASSUME IndInv, NewDayTick
    PROVE  IndInv'
<1>1. position' = [s \in Strategies |-> RollPositionToNextTradingDay(position[s])] /\ dealt' = dealt
  BY DEF NewDayTick
<1>2. \A s \in Strategies : position[s] \in PositionState
  BY DEF IndInv, BooksInv, TypeOfBooks
<1>3. BooksInv'
  BY <1>1, <1>2, RollKeepsTotals DEF IndInv, BooksInv, TypeOfBooks, BookMatchesFills
<1>4. OrdersInv'
  BY DEF NewDayTick, IndInv, OrdersInv, TypeOfOrders, QueueIsFresh, RestingLeftQueue,
         FilledWithinVolume, Rest, Members
<1> QED
  BY <1>3, <1>4 DEF IndInv

LEMMA ActivateKeeps ==
    ASSUME IndInv, NEW s \in Strategies, NEW i \in Ids, ActivateScheduledOrder(s, i)
    PROVE  IndInv'
<1>1. pending \in [Strategies -> Seq(Ids)] /\ scheduled \in [Strategies -> SUBSET Ids]
  BY DEF IndInv, OrdersInv, TypeOfOrders
<1>2. /\ i \in scheduled[s]
      /\ scheduled' = [scheduled EXCEPT ![s] = scheduled[s] \ {i}]
      /\ pending' = [pending EXCEPT ![s] = Append(pending[s], i)]
      /\ UNCHANGED <<order, sent, orderQueue, position, dealt>>
  BY DEF ActivateScheduledOrder
<1>3. Append(pending[s], i) \in Seq(Ids) /\ Members(Append(pending[s], i)) = Members(pending[s]) \union {i}
  BY <1>1, AppendAddsMember
<1>4. pending' \in [Strategies -> Seq(Ids)] /\ scheduled' \in [Strategies -> SUBSET Ids]
  BY <1>1, <1>2, <1>3
<1>5. ASSUME NEW t \in Strategies
      PROVE  Members(pending'[t]) \union scheduled'[t] \subseteq Members(pending[t]) \union scheduled[t]
  <2>1. CASE t = s
    BY <1>1, <1>2, <1>3, <2>1
  <2>2. CASE t # s
    <3>1. pending'[t] = pending[t] /\ scheduled'[t] = scheduled[t]
      BY <1>1, <1>2, <2>2
    <3> QED
      BY <3>1
  <2> QED
    BY <2>1, <2>2
<1>6. \A t \in Strategies : Rest(t)' \subseteq Rest(t)
  BY <1>5 DEF Rest, Members
<1>7. OrdersInv'
  BY <1>2, <1>4, <1>6, RestShrinks DEF IndInv
<1> QED
  BY <1>2, <1>7, BooksKept DEF IndInv

LEMMA MatchRejectedKeeps ==
    ASSUME IndInv, NEW s \in Strategies, NEW i \in Ids, MatchRejected(s, i)
    PROVE  IndInv'
<1>1. OrdersInv'
  BY ForgetPendingShrinks DEF IndInv, MatchRejected
<1>2. BooksInv'
  BY BooksKept DEF IndInv, MatchRejected
<1> QED
  BY <1>1, <1>2 DEF IndInv

LEMMA MatchFillsKeeps ==
    ASSUME IndInv, NEW s \in Strategies, NEW i \in Ids, NEW volume \in 1..MaxVolume,
           MatchFills(s, i, volume)
    PROVE  IndInv'
<1>1. i \in Rest(s)
  BY DEF MatchFills, NextToService, Rest, Members
<1>2. \A k \in 1..Len(orderQueue) : orderQueue[k] # i
  BY <1>1 DEF IndInv, OrdersInv, RestingLeftQueue
<1>3. order[i] \in AnyOrder /\ Remaining(i) \in Int
  BY DEF IndInv, OrdersInv, TypeOfOrders, AnyOrder, Remaining
<1>4. volume \in Nat \ {0} /\ volume <= Remaining(i) /\ Remaining(i) \in Nat
  BY <1>3, BoundsAssumption DEF MatchFills, Matches
<1>5. Book(s, i, volume) /\ UNCHANGED <<sent, orderQueue>>
  BY DEF MatchFills
<1>6. CloseRequestIsValid(position[s], order[i].request, Remaining(i))
  BY DEF MatchFills, StillValid
<1>7. BooksInv'
  BY <1>4, <1>5, <1>6, BookIsExact DEF BooksInv
<1>8. /\ order' \in [Ids -> AnyOrder]
      /\ \A j \in Ids : order'[j].filled <= order'[j].volume
      /\ \A k \in 1..Len(orderQueue) : order'[orderQueue[k]] = order[orderQueue[k]]
  BY <1>2, <1>4, <1>5, BookKeepsOrders DEF IndInv
<1>9. /\ scheduled' \in [Strategies -> SUBSET Ids] /\ pending' \in [Strategies -> Seq(Ids)]
      /\ \A t \in Strategies : Rest(t)' \subseteq Rest(t)
  <2>1. CASE volume = Remaining(i)
    BY <2>1, ForgetPendingShape DEF IndInv, MatchFills
  <2>2. CASE volume # Remaining(i)
    BY <2>2 DEF IndInv, OrdersInv, TypeOfOrders, MatchFills, Rest, Members
  <2> QED
    BY <2>1, <2>2
<1>10. TypeOfOrders' /\ FilledWithinVolume'
  BY <1>5, <1>8, <1>9 DEF IndInv, OrdersInv, TypeOfOrders, FilledWithinVolume
<1>11. QueueIsFresh'
  BY <1>5, <1>8 DEF IndInv, OrdersInv, QueueIsFresh
<1>12. RestingLeftQueue'
  BY <1>5, <1>9 DEF IndInv, OrdersInv, RestingLeftQueue
<1> QED
  BY <1>7, <1>10, <1>11, <1>12 DEF IndInv, OrdersInv

\* The order at the head of the queue: untouched, and nowhere else.
LEMMA HeadIsFresh ==
    ASSUME IndInv, NEW s \in Strategies, NEW i \in Ids, Submitting(s, i)
    PROVE  /\ order[i] \in AnyOrder /\ order[i].filled = 0 /\ order[i].volume > 0 /\ i <= sent
           /\ \A t \in Strategies : i \notin Rest(t)
           /\ sent' = sent /\ orderQueue' \in Seq(Ids)
           /\ Len(orderQueue) \in Nat /\ Len(orderQueue') = Len(orderQueue) - 1
           /\ \A k \in 1..Len(orderQueue') : orderQueue'[k] = orderQueue[k + 1] /\ orderQueue'[k] # i
<1>1. orderQueue \in Seq(Ids) /\ orderQueue # <<>> /\ i = orderQueue[1] /\ orderQueue' = Tail(orderQueue)
  BY DEF IndInv, OrdersInv, TypeOfOrders, Submitting
<1>2. Len(orderQueue) \in Nat /\ 1 \in 1..Len(orderQueue)
  BY <1>1
<1>3. /\ orderQueue' \in Seq(Ids) /\ Len(orderQueue') = Len(orderQueue) - 1
      /\ \A k \in 1..Len(orderQueue') : orderQueue'[k] = orderQueue[k + 1]
  BY <1>1, HeadTailProperties
<1>4. ASSUME NEW k \in 1..Len(orderQueue') PROVE orderQueue'[k] # i
  <2>1. k + 1 \in 1..Len(orderQueue) /\ 1 < k + 1
    BY <1>2, <1>3
  <2>2. orderQueue[1] < orderQueue[k + 1] /\ orderQueue[1] \in Int /\ orderQueue[k + 1] \in Int
    <3>1. orderQueue[1] < orderQueue[k + 1]
      BY <1>2, <2>1 DEF IndInv, OrdersInv, QueueIsFresh
    <3>2. orderQueue[1] \in Ids /\ orderQueue[k + 1] \in Ids
      BY <1>1, <1>2, <2>1
    <3> QED
      BY <3>1, <3>2 DEF Ids
  <2> QED
    BY <1>1, <1>3, <2>2
<1>5. order[i] \in AnyOrder /\ order[i].filled = 0 /\ order[i].volume > 0 /\ i <= sent
  BY <1>1, <1>2 DEF IndInv, OrdersInv, TypeOfOrders, QueueIsFresh
<1>6. \A t \in Strategies : i \notin Rest(t)
  BY <1>1, <1>2 DEF IndInv, OrdersInv, RestingLeftQueue
<1> QED
  BY <1>2, <1>3, <1>4, <1>5, <1>6 DEF Submitting

\* What is left of the queue stays fresh when the orders in it are untouched,
\* and the head may rest.
LEMMA HeadLeaves ==
    ASSUME IndInv, NEW s \in Strategies, NEW i \in Ids, Submitting(s, i),
           order' \in [Ids -> AnyOrder],
           \A j \in Ids : order'[j].filled <= order'[j].volume,
           \A j \in Ids \ {i} : order'[j] = order[j],
           scheduled' \in [Strategies -> SUBSET Ids],
           pending' \in [Strategies -> Seq(Ids)],
           \A t \in Strategies : Rest(t)' \subseteq Rest(t) \union {i}
    PROVE  OrdersInv'
<1>1. /\ order[i].filled = 0 /\ order[i].volume > 0 /\ i <= sent
      /\ sent' = sent /\ orderQueue' \in Seq(Ids)
      /\ Len(orderQueue) \in Nat /\ Len(orderQueue') = Len(orderQueue) - 1
      /\ \A k \in 1..Len(orderQueue') : orderQueue'[k] = orderQueue[k + 1] /\ orderQueue'[k] # i
  BY HeadIsFresh
<1>2. TypeOfOrders'
  BY <1>1 DEF IndInv, OrdersInv, TypeOfOrders
<1>3. QueueIsFresh'
  <2> SUFFICES ASSUME NEW k \in 1..Len(orderQueue')
               PROVE  /\ orderQueue'[k] <= sent'
                      /\ order'[orderQueue'[k]].filled = 0 /\ order'[orderQueue'[k]].volume > 0
                      /\ \A j \in 1..Len(orderQueue') : j < k => orderQueue'[j] < orderQueue'[k]
    BY DEF QueueIsFresh
  <2>1. k + 1 \in 1..Len(orderQueue) /\ orderQueue'[k] = orderQueue[k + 1] /\ orderQueue'[k] \in Ids \ {i}
    BY <1>1
  <2>2. /\ orderQueue[k + 1] <= sent
        /\ order[orderQueue[k + 1]].filled = 0 /\ order[orderQueue[k + 1]].volume > 0
        /\ \A j \in 1..Len(orderQueue) : j < k + 1 => orderQueue[j] < orderQueue[k + 1]
    BY <2>1 DEF IndInv, OrdersInv, QueueIsFresh
  <2>3. ASSUME NEW j \in 1..Len(orderQueue'), j < k
        PROVE  orderQueue'[j] < orderQueue'[k]
    <3>1. j \in Nat /\ k \in Nat /\ j + 1 \in 1..Len(orderQueue)
      BY <1>1
    <3>2. j + 1 < k + 1 /\ orderQueue'[j] = orderQueue[j + 1]
      BY <1>1, <2>3, <3>1
    <3> QED
      BY <2>1, <2>2, <3>1, <3>2
  <2>4. order'[orderQueue'[k]] = order[orderQueue[k + 1]]
    BY <2>1
  <2> QED
    BY <1>1, <2>1, <2>2, <2>3, <2>4
<1>4. RestingLeftQueue'
  <2> SUFFICES ASSUME NEW t \in Strategies, NEW j \in Rest(t) \union {i}
               PROVE  j <= sent' /\ \A k \in 1..Len(orderQueue') : j # orderQueue'[k]
    BY DEF RestingLeftQueue
  <2>1. CASE j = i
    BY <1>1, <2>1
  <2>2. CASE j \in Rest(t)
    <3>1. j <= sent /\ \A k \in 1..Len(orderQueue) : j # orderQueue[k]
      BY <2>2 DEF IndInv, OrdersInv, RestingLeftQueue
    <3>2. \A k \in 1..Len(orderQueue') : k + 1 \in 1..Len(orderQueue)
      BY <1>1
    <3> QED
      BY <1>1, <3>1, <3>2
  <2> QED
    BY <2>1, <2>2
<1> QED
  BY <1>2, <1>3, <1>4 DEF OrdersInv, FilledWithinVolume

LEMMA SubmitKeeps ==
    ASSUME IndInv, NEW s \in Strategies, NEW i \in Ids,
           \/ SubmitRejected(s, i) \/ SubmitFills(s, i)
           \/ SubmitRests(s, i) \/ SubmitScheduled(s, i)
    PROVE  IndInv'
<1>1. /\ order \in [Ids -> AnyOrder] /\ \A j \in Ids : order[j].filled <= order[j].volume
      /\ pending \in [Strategies -> Seq(Ids)] /\ scheduled \in [Strategies -> SUBSET Ids]
  BY DEF IndInv, OrdersInv, TypeOfOrders, FilledWithinVolume
<1>2. CASE SubmitRejected(s, i)
  <2>1. Submitting(s, i) /\ UNCHANGED <<order, scheduled, pending, position, dealt>>
    BY <1>2 DEF SubmitRejected
  <2>2. \A t \in Strategies : Rest(t)' \subseteq Rest(t) \union {i}
    BY <2>1 DEF Rest, Members
  <2> QED
    BY <1>1, <2>1, <2>2, HeadLeaves, BooksKept DEF IndInv
<1>3. CASE SubmitFills(s, i)
  <2>1. /\ Submitting(s, i) /\ Book(s, i, order[i].volume) /\ UNCHANGED <<scheduled, pending>>
        /\ CloseRequestIsValid(position[s], order[i].request, order[i].volume)
    BY <1>3 DEF SubmitFills, Acceptable
  <2>2. order[i] \in AnyOrder /\ order[i].filled = 0 /\ order[i].volume > 0 
    BY <2>1, HeadIsFresh
  <2>3. order[i].volume \in Nat \ {0} /\ order[i].filled + order[i].volume = order[i].volume
    BY <2>2 DEF AnyOrder
  <2>4. BooksInv'
    BY <2>1, <2>3, BookIsExact DEF BooksInv
  <2>5. order' = [order EXCEPT ![i] = [order[i] EXCEPT !.filled = order[i].volume]]
    BY <1>1, <2>1, <2>3 DEF Book
  <2>6. [order[i] EXCEPT !.filled = order[i].volume] \in AnyOrder
    BY <2>2 DEF AnyOrder
  <2>7. /\ order' \in [Ids -> AnyOrder] /\ \A j \in Ids \ {i} : order'[j] = order[j]
        /\ order'[i].filled = order[i].volume /\ order'[i].volume = order[i].volume
    BY <1>1, <2>2, <2>5, <2>6 DEF AnyOrder
  <2>8. \A j \in Ids : order'[j].filled <= order'[j].volume
    BY <1>1, <2>3, <2>7
  <2>9. \A t \in Strategies : Rest(t)' \subseteq Rest(t) \union {i}
    BY <2>1 DEF Rest, Members
  <2> QED
    BY <1>1, <2>1, <2>4, <2>7, <2>8, <2>9, HeadLeaves DEF IndInv
<1>4. CASE SubmitRests(s, i)
  <2>1. /\ Submitting(s, i) /\ UNCHANGED <<order, scheduled, position, dealt>>
        /\ pending' = [pending EXCEPT ![s] = Append(pending[s], i)]
    BY <1>4 DEF SubmitRests
  <2>2. Append(pending[s], i) \in Seq(Ids) /\ Members(Append(pending[s], i)) = Members(pending[s]) \union {i}
    BY <1>1, AppendAddsMember
  <2>3. ASSUME NEW t \in Strategies PROVE Members(pending'[t]) \subseteq Members(pending[t]) \union {i}
    <3>1. CASE t = s
      BY <1>1, <2>1, <2>2, <3>1
    <3>2. CASE t # s
      <4>1. pending'[t] = pending[t]
        BY <1>1, <2>1, <3>2
      <4> QED
        BY <4>1
    <3> QED
      BY <3>1, <3>2
  <2>4. pending' \in [Strategies -> Seq(Ids)]
    BY <1>1, <2>1, <2>2
  <2>5. \A t \in Strategies : Rest(t)' \subseteq Rest(t) \union {i}
    BY <2>1, <2>3 DEF Rest, Members
  <2> QED
    BY <1>1, <2>1, <2>4, <2>5, HeadLeaves, BooksKept DEF IndInv
<1>5. CASE SubmitScheduled(s, i)
  <2>1. /\ Submitting(s, i) /\ UNCHANGED <<order, pending, position, dealt>>
        /\ scheduled' = [scheduled EXCEPT ![s] = scheduled[s] \union {i}]
    BY <1>5 DEF SubmitScheduled
  <2>2. scheduled' \in [Strategies -> SUBSET Ids]
    BY <1>1, <2>1
  <2>3. \A t \in Strategies : scheduled'[t] \subseteq scheduled[t] \union {i}
    BY <1>1, <2>1
  <2>4. \A t \in Strategies : Rest(t)' \subseteq Rest(t) \union {i}
    BY <2>1, <2>3 DEF Rest, Members
  <2> QED
    BY <1>1, <2>1, <2>2, <2>4, HeadLeaves, BooksKept DEF IndInv
<1> QED
  BY <1>2, <1>3, <1>4, <1>5

\* The other steps move nothing the invariant speaks of.
LEMMA OthersKeep ==
    ASSUME IndInv, UNCHANGED <<order, sent, orderQueue, scheduled, pending, position, dealt>>
    PROVE  IndInv'
<1>1. OrdersInv'
  BY DEF IndInv, OrdersInv, TypeOfOrders, QueueIsFresh, RestingLeftQueue, FilledWithinVolume,
         Rest, Members
<1> QED
  BY <1>1, BooksKept DEF IndInv

-----------------------------------------------------------------------------
(* The results.                                                            *)

LEMMA StepKeeps == IndInv /\ [Next]_vars => IndInv'
<1> SUFFICES ASSUME IndInv, [Next]_vars PROVE IndInv'
  OBVIOUS
<1>1. CASE Callbacks
  BY <1>1, SendOrderKeeps, CancelOrderKeeps DEF Callbacks
<1>2. CASE Service
  <2> SUFFICES ASSUME NEW s \in Strategies, NEW i \in Ids,
                      \/ ActivateScheduledOrder(s, i)
                      \/ NotMatched(s, i) \/ MatchRejected(s, i)
                      \/ \E volume \in 1..MaxVolume : MatchFills(s, i, volume)
               PROVE  IndInv'
    BY <1>2 DEF Service
  <2>1. CASE NotMatched(s, i)
    BY <2>1, OthersKeep DEF NotMatched, engine
  <2> QED
    BY <2>1, ActivateKeeps, MatchRejectedKeeps, MatchFillsKeeps
<1>3. CASE Submit
  BY <1>3, SubmitKeeps DEF Submit
<1>4. CASE ProcessTick
  <2>1. CASE NewDayTick
    BY <2>1, NewDayTickKeeps
  <2>2. CASE ProcessTick /\ ~NewDayTick
    BY <2>2, OthersKeep
    DEF ProcessTick, StartDone, SameDayTick, DayDispatched, TickDispatched, ActivationDone,
        ServiceDone, NothingQueued, DispatchEvent, EventsDispatched, engine
  <2> QED
    BY <1>4, <2>1, <2>2
<1>5. CASE UNCHANGED vars
  BY <1>5, OthersKeep DEF vars
<1> QED
  BY <1>1, <1>2, <1>3, <1>4, <1>5 DEF Next

(* The invariant the two results below rest on.                             *)
THEOREM EngineInvariant == Spec => []IndInv
  BY Initial, StepKeeps, PTL DEF Spec

(* Whatever the replay does, the lots a strategy holds on each leg are those*)
(* its fills opened less those they closed: service_resting_orders and     *)
(* submit_backtest_order check a close against the position it will spend. *)
THEOREM BooksMatch == Spec => []BookMatchesFills
<1>1. IndInv => BookMatchesFills
  BY DEF IndInv, BooksInv
<1> QED
  BY <1>1, EngineInvariant, PTL

(* No order trades more than it asked for, over any number of partial fills.*)
THEOREM NoOverfill == Spec => []FilledWithinVolume
<1>1. IndInv => FilledWithinVolume
  BY DEF IndInv, OrdersInv
<1> QED
  BY <1>1, EngineInvariant, PTL

-----------------------------------------------------------------------------
(* Where an order is.                                                      *)

\* An order that was sent has a volume and an owner, one that was not is blank.
SentIsReal ==
    \A i \in Ids : /\ i <= sent => order[i].volume > 0 /\ order[i].strategy \in Strategies
                   /\ i > sent => order[i].volume = 0 /\ order[i].filled = 0

\* It rests with its own strategy, once, and either waits for its time or rests.
RestIsOwn == \A s \in Strategies : \A i \in Rest(s) : order[i].strategy = s
RestsOnce ==
    \A s \in Strategies :
        /\ \A k, j \in DOMAIN pending[s] : pending[s][k] = pending[s][j] => k = j
        /\ Members(pending[s]) \cap scheduled[s] = {}

Gone(i) == /\ Len(closed[i]) = 1 /\ i <= sent /\ i \notin Members(orderQueue)
           /\ \A s \in Strategies : i \notin Rest(s)
ClosedIsOver == /\ closed \in [Ids -> Seq(Status)]
                /\ \A i \in Ids : closed[i] # <<>> => Gone(i)

SentIsSomewhere ==
    \A i \in Ids : i <= sent => \/ i \in Members(orderQueue) \/ closed[i] # <<>>
                                \/ \E s \in Strategies : i \in Rest(s)

PlacesInv == /\ SentIsReal /\ RestIsOwn /\ RestsOnce /\ ClosedIsOver /\ SentIsSomewhere
             /\ OpenOrdersAreLive

\* What a step does to the orders.  No step does more than one of these.
Trades(i, volume) ==
    /\ \A j \in Ids : order'[j].volume = order[j].volume /\ order'[j].strategy = order[j].strategy
    /\ \A j \in Ids \ {i} : order'[j].filled = order[j].filled
    /\ order'[i].filled = order[i].filled + volume

Stays == /\ UNCHANGED <<order, sent, orderQueue, opened, closed>> /\ RestsOnce'
         /\ \A t \in Strategies : Rest(t)' = Rest(t)

IsSent(s, i, volume) ==
    /\ i = sent + 1 /\ sent' = i
    /\ order'[i].volume = volume /\ order'[i].strategy = s /\ order'[i].filled = 0
    /\ \A j \in Ids \ {i} : order'[j] = order[j]
    /\ Members(orderQueue') = Members(orderQueue) \union {i}
    /\ UNCHANGED <<pending, scheduled, opened, closed>>

StartsToRest(s, i) ==
    /\ s = order[i].strategy /\ i <= sent /\ order[i].filled = 0 /\ closed[i] = <<>>
    /\ \A t \in Strategies : i \notin Rest(t)
    /\ Rest(s)' = Rest(s) \union {i} /\ \A t \in Strategies \ {s} : Rest(t)' = Rest(t)
    /\ RestsOnce'
    /\ Members(orderQueue') = Members(orderQueue) \ {i}
    /\ opened' = {o \in opened : o.id # i} \union {[id |-> i, filled |-> 0]}
    /\ UNCHANGED <<order, sent, closed>>

TradesPartly(s, i, volume) ==
    /\ i \in Rest(s) /\ Trades(i, volume) /\ order[i].filled + volume < order[i].volume
    /\ opened' = {o \in opened : o.id # i} \union {[id |-> i, filled |-> order[i].filled + volume]}
    /\ UNCHANGED <<sent, orderQueue, pending, scheduled, closed>>

IsOver(i, status, volume) ==
    /\ i <= sent /\ closed[i] = <<>> /\ Trades(i, volume)
    /\ closed' = [closed EXCEPT ![i] = <<status>>]
    /\ \A t \in Strategies : Rest(t)' = Rest(t) \ {i}
    /\ RestsOnce'
    /\ Members(orderQueue') = Members(orderQueue) \ {i}
    /\ opened' = {o \in opened : o.id # i}
    /\ UNCHANGED sent

-----------------------------------------------------------------------------
(* Vectors without repetition.                                             *)

\* Removing an order from a vector that holds it once removes it, and only it.
LEMMA WithoutIsExact ==
    ASSUME NEW seq \in Seq(Ids), NEW i,
           \A k, j \in DOMAIN seq : seq[k] = seq[j] => k = j
    PROVE  /\ Members(Without(seq, i)) = Members(seq) \ {i}
           /\ \A k, j \in DOMAIN Without(seq, i) : Without(seq, i)[k] = Without(seq, i)[j] => k = j
<1>1. CASE i \notin Members(seq)
  BY <1>1 DEF Without
<1>2. CASE i \in Members(seq)
  <2>1. DOMAIN seq = 1..Len(seq) /\ Len(seq) \in Nat
    OBVIOUS
  <2>2. PICK p \in 1..Len(seq) : seq[p] = i
    BY <1>2, <2>1 DEF Members
  <2>3. PositionOf(seq, i) = p
    BY <2>1, <2>2 DEF PositionOf
  <2>4. PICK w : w = Without(seq, i)
    OBVIOUS
  <2>5. w = [k \in 1..(Len(seq) - 1) |-> IF k < p THEN seq[k] ELSE seq[k + 1]]
    BY <1>2, <2>3, <2>4 DEF Without
  <2>6. ASSUME NEW k \in 1..(Len(seq) - 1)
        PROVE  /\ k \in 1..Len(seq) /\ k + 1 \in 1..Len(seq)
               /\ w[k] = IF k < p THEN seq[k] ELSE seq[k + 1]
    BY <2>1, <2>5
  <2>7. \A k, j \in DOMAIN w : w[k] = w[j] => k = j
    <3> SUFFICES ASSUME NEW k \in 1..(Len(seq) - 1), NEW j \in 1..(Len(seq) - 1), w[k] = w[j]
                 PROVE  k = j
      BY <2>5
    <3> DEFINE from(x) == IF x < p THEN x ELSE x + 1
    <3>1. /\ from(k) \in DOMAIN seq /\ from(j) \in DOMAIN seq
          /\ seq[from(k)] = w[k] /\ seq[from(j)] = w[j]
      BY <2>1, <2>6
    <3>2. from(k) = from(j)
      <4> HIDE DEF from
      <4> QED
        BY <3>1
    <3> QED
      BY <2>1, <3>2
  <2>8. ASSUME NEW k \in 1..(Len(seq) - 1) PROVE w[k] \in Members(seq) \ {i}
    <3>1. w[k] \in Members(seq)
      BY <2>1, <2>6 DEF Members
    <3>2. CASE k < p
      BY <2>1, <2>2, <2>6, <3>1, <3>2
    <3>3. CASE ~(k < p)
      BY <2>1, <2>2, <2>6, <3>1, <3>3
    <3> QED
      BY <3>2, <3>3
  <2>9. ASSUME NEW m \in 1..Len(seq), seq[m] # i PROVE \E k \in 1..(Len(seq) - 1) : w[k] = seq[m]
    <3>1. CASE m < p
      <4>1. m \in 1..(Len(seq) - 1)
        BY <2>1, <3>1
      <4> QED
        BY <4>1, <2>6, <3>1
    <3>2. CASE m > p
      <4>1. m - 1 \in 1..(Len(seq) - 1) /\ ~(m - 1 < p) /\ (m - 1) + 1 = m
        BY <2>1, <3>2
      <4> QED
        BY <4>1, <2>6
    <3> QED
      BY <2>2, <2>9, <3>1, <3>2
  <2>10. Members(w) = {w[k] : k \in 1..(Len(seq) - 1)}
    BY <2>5 DEF Members
  <2>11. Members(w) = Members(seq) \ {i}
    <3>1. Members(w) \subseteq Members(seq) \ {i}
      BY <2>8, <2>10
    <3>2. ASSUME NEW x \in Members(seq) \ {i} PROVE x \in Members(w)
      <4>1. PICK m \in 1..Len(seq) : seq[m] = x
        BY <2>1 DEF Members
      <4> QED
        BY <4>1, <2>9, <2>10
    <3> QED
      BY <3>1, <3>2
  <2> QED
    BY <2>4, <2>7, <2>11
<1> QED
  BY <1>1, <1>2

LEMMA AppendKeepsDistinct ==
    ASSUME NEW seq \in Seq(Ids), NEW i \in Ids, i \notin Members(seq),
           \A k, j \in DOMAIN seq : seq[k] = seq[j] => k = j
    PROVE  \A k, j \in DOMAIN Append(seq, i) : Append(seq, i)[k] = Append(seq, i)[j] => k = j
<1>1. /\ Len(Append(seq, i)) = Len(seq) + 1 /\ Append(seq, i) \in Seq(Ids)
      /\ \A k \in 1..Len(seq) : Append(seq, i)[k] = seq[k]
      /\ Append(seq, i)[Len(seq) + 1] = i
  BY AppendProperties
<1>2. /\ Len(seq) \in Nat /\ DOMAIN seq = 1..Len(seq)
      /\ DOMAIN Append(seq, i) = 1..(Len(seq) + 1)
  BY <1>1
<1>3. \A k \in 1..Len(seq) : seq[k] # i
  BY <1>2 DEF Members
<1> QED
  BY <1>1, <1>2, <1>3

-----------------------------------------------------------------------------
(* What each action does to the orders.                                    *)

LEMMA ForgetPendingExact ==
    ASSUME IndInv, PlacesInv, NEW s \in Strategies, NEW i \in Ids, i \in Rest(s), ForgetPending(s, i)
    PROVE  (\A t \in Strategies : Rest(t)' = Rest(t) \ {i}) /\ RestsOnce'
<1>1. /\ pending \in [Strategies -> Seq(Ids)] /\ scheduled \in [Strategies -> SUBSET Ids]
      /\ RestIsOwn /\ RestsOnce
  BY DEF IndInv, OrdersInv, TypeOfOrders, PlacesInv
<1>2. /\ pending' = [pending EXCEPT ![s] = Without(pending[s], i)]
      /\ scheduled' = [scheduled EXCEPT ![s] = scheduled[s] \ {i}]
  BY DEF ForgetPending
<1>3. PICK w : w = Without(pending[s], i)
  OBVIOUS
<1>4. Members(w) = Members(pending[s]) \ {i} /\ \A k, j \in DOMAIN w : w[k] = w[j] => k = j
  BY <1>1, <1>3, WithoutIsExact DEF RestsOnce
<1>5. ASSUME NEW t \in Strategies
      PROVE  /\ Members(pending'[t]) \union scheduled'[t] = Rest(t) \ {i}
             /\ \A k, j \in DOMAIN pending'[t] : pending'[t][k] = pending'[t][j] => k = j
             /\ Members(pending'[t]) \cap scheduled'[t] = {}
  <2>1. CASE t = s
    <3>1. pending'[t] = w /\ scheduled'[t] = scheduled[t] \ {i}
      BY <1>1, <1>2, <1>3, <2>1
    <3>2. Members(pending[t]) \cap scheduled[t] = {}
      BY <1>1 DEF RestsOnce
    <3> QED
      BY <1>4, <2>1, <3>1, <3>2 DEF Rest
  <2>2. CASE t # s
    <3>1. pending'[t] = pending[t] /\ scheduled'[t] = scheduled[t]
      BY <1>1, <1>2, <2>2
    <3>2. i \notin Rest(t)
      BY <1>1, <2>2 DEF RestIsOwn
    <3> QED
      BY <1>1, <3>1, <3>2 DEF Rest, RestsOnce
  <2> QED
    BY <2>1, <2>2
<1> QED
  BY <1>5 DEF Rest, RestsOnce, Members

\* An order that rests is of this replay, is not closed, and has left the queue.
LEMMA RestingIsUnclosed ==
    ASSUME IndInv, PlacesInv, NEW s \in Strategies, NEW i \in Ids, i \in Rest(s)
    PROVE  /\ i <= sent /\ closed[i] = <<>> /\ i \notin Members(orderQueue)
           /\ order[i] \in AnyOrder /\ order[i].volume > 0
<1>1. i <= sent /\ \A k \in 1..Len(orderQueue) : i # orderQueue[k]
  BY DEF IndInv, OrdersInv, RestingLeftQueue
<1>2. closed[i] = <<>>
  BY DEF PlacesInv, ClosedIsOver, Gone
<1>3. i \notin Members(orderQueue)
  BY <1>1 DEF Members, IndInv, OrdersInv, TypeOfOrders
<1> QED
  BY <1>1, <1>2, <1>3 DEF IndInv, OrdersInv, TypeOfOrders, PlacesInv, SentIsReal

\* The order at the head has been nowhere yet.
LEMMA HeadIsUnclosed ==
    ASSUME IndInv, PlacesInv, NEW s \in Strategies, NEW i \in Ids, Submitting(s, i)
    PROVE  /\ i <= sent /\ closed[i] = <<>> /\ sent' = sent /\ \A t \in Strategies : i \notin Rest(t)
           /\ Members(orderQueue') = Members(orderQueue) \ {i}
           /\ order[i] \in AnyOrder /\ order[i].filled = 0 /\ order[i].volume > 0
<1>1. /\ order[i] \in AnyOrder /\ order[i].filled = 0 /\ order[i].volume > 0 /\ i <= sent
      /\ \A t \in Strategies : i \notin Rest(t)
      /\ sent' = sent /\ orderQueue' \in Seq(Ids)
      /\ Len(orderQueue) \in Nat /\ Len(orderQueue') = Len(orderQueue) - 1
      /\ \A k \in 1..Len(orderQueue') : orderQueue'[k] = orderQueue[k + 1] /\ orderQueue'[k] # i
  BY HeadIsFresh
<1>2. orderQueue \in Seq(Ids) /\ orderQueue # <<>> /\ i = orderQueue[1]
  BY DEF IndInv, OrdersInv, TypeOfOrders, Submitting
<1>3. /\ DOMAIN orderQueue = 1..Len(orderQueue) /\ DOMAIN orderQueue' = 1..Len(orderQueue')
      /\ 1 \in 1..Len(orderQueue)
  BY <1>1, <1>2
<1>4. i \in Members(orderQueue)
  BY <1>2, <1>3 DEF Members
<1>5. closed[i] = <<>>
  BY <1>4 DEF PlacesInv, ClosedIsOver, Gone
<1>6. Members(orderQueue') \subseteq Members(orderQueue) \ {i}
  <2>1. \A k \in 1..Len(orderQueue') : k + 1 \in 1..Len(orderQueue)
    BY <1>1
  <2> QED
    BY <1>1, <1>3, <2>1 DEF Members
<1>7. ASSUME NEW j \in Members(orderQueue) \ {i} PROVE j \in Members(orderQueue')
  <2>1. PICK k \in 1..Len(orderQueue) : orderQueue[k] = j
    BY <1>3 DEF Members
  <2>2. k # 1
    BY <1>2, <2>1
  <2>3. k - 1 \in 1..Len(orderQueue') /\ (k - 1) + 1 = k
    BY <1>1, <2>1, <2>2
  <2>4. orderQueue'[k - 1] = j
    BY <1>1, <2>1, <2>3
  <2> QED
    BY <1>3, <2>3, <2>4 DEF Members
<1> QED
  BY <1>1, <1>5, <1>6, <1>7

LEMMA BookTrades ==
    ASSUME IndInv, NEW s \in Strategies, NEW i \in Ids, NEW volume \in Nat, Book(s, i, volume)
    PROVE  Trades(i, volume)
<1>1. order \in [Ids -> AnyOrder]
  BY DEF IndInv, OrdersInv, TypeOfOrders
<1>2. order' = [order EXCEPT ![i] = [order[i] EXCEPT !.filled = order[i].filled + volume]]
  BY <1>1 DEF Book
<1>3. order'[i] = [order[i] EXCEPT !.filled = order[i].filled + volume] /\ order[i] \in AnyOrder
  BY <1>1, <1>2
<1>4. /\ order'[i].filled = order[i].filled + volume
      /\ order'[i].volume = order[i].volume /\ order'[i].strategy = order[i].strategy
  BY <1>3 DEF AnyOrder
<1>5. \A j \in Ids \ {i} : order'[j] = order[j]
  BY <1>1, <1>2
<1> QED
  BY <1>4, <1>5 DEF Trades

LEMMA NoTradeIsZero ==
    ASSUME IndInv, NEW i \in Ids, order' = order
    PROVE  Trades(i, 0)
<1>1. order[i].filled \in Nat
  BY DEF IndInv, OrdersInv, TypeOfOrders, AnyOrder
<1> QED
  BY <1>1 DEF Trades

LEMMA SendOrderSends ==
    ASSUME IndInv, NEW s \in Strategies, NEW r \in Requests,
           NEW volume \in 1..MaxVolume, NEW p \in Policies, SendOrder(s, r, volume, p)
    PROVE  \E i \in Ids : IsSent(s, i, volume)
<1> DEFINE i == sent + 1
<1>1. sent \in Nat /\ orderQueue \in Seq(Ids) /\ order \in [Ids -> AnyOrder]
  BY BoundsAssumption DEF IndInv, OrdersInv, TypeOfOrders
<1>2. i \in Ids
  BY <1>1, BoundsAssumption DEF SendOrder, Ids
<1>3. Members(orderQueue') = Members(orderQueue) \union {i}
  BY <1>1, <1>2, AppendAddsMember DEF SendOrder
<1>4. order' = [order EXCEPT ![i] = [strategy |-> s, request |-> r, volume |-> volume,
                                     policy |-> p, filled |-> 0]]
  BY DEF SendOrder
<1>5. /\ order'[i].volume = volume /\ order'[i].strategy = s /\ order'[i].filled = 0
      /\ \A j \in Ids \ {i} : order'[j] = order[j]
  BY <1>1, <1>2, <1>4
<1>6. sent' = i /\ UNCHANGED <<pending, scheduled, opened, closed>>
  BY DEF SendOrder
<1> QED
  BY <1>2, <1>3, <1>5, <1>6 DEF IsSent

LEMMA FirstEntry ==
    ASSUME PlacesInv, NEW i \in Ids, NEW status \in Status, closed[i] = <<>>, RecordClosedOrder(i, status)
    PROVE  closed' = [closed EXCEPT ![i] = <<status>>]
<1>1. closed' = [closed EXCEPT ![i] = Append(closed[i], status)]
  BY DEF RecordClosedOrder
<1>2. Append(<<>>, status) = <<status>>
  OBVIOUS
<1> QED
  BY <1>1, <1>2

\* A resting order that is closed and forgotten is over.
LEMMA RestingIsOver ==
    ASSUME IndInv, PlacesInv, NEW s \in Strategies, NEW i \in Ids, i \in Rest(s),
           NEW status \in Status, NEW volume \in Nat, Trades(i, volume),
           ForgetPending(s, i), RecordClosedOrder(i, status), EraseOpened(i),
           UNCHANGED <<sent, orderQueue>>
    PROVE  IsOver(i, status, volume)
<1>1. i <= sent /\ closed[i] = <<>> /\ i \notin Members(orderQueue)
  BY RestingIsUnclosed
<1>2. closed' = [closed EXCEPT ![i] = <<status>>]
  BY <1>1, FirstEntry
<1>3. (\A t \in Strategies : Rest(t)' = Rest(t) \ {i}) /\ RestsOnce'
  BY ForgetPendingExact
<1>4. Members(orderQueue') = Members(orderQueue) \ {i}
  BY <1>1
<1> QED
  BY <1>1, <1>2, <1>3, <1>4 DEF IsOver, EraseOpened

LEMMA CancelOrderEnds ==
    ASSUME IndInv, PlacesInv, NEW s \in Strategies, NEW i \in Ids, CancelOrder(s, i)
    PROVE  IsOver(i, "Cancelled", 0)
<1>1. i \in Rest(s) /\ UNCHANGED <<order, sent, orderQueue>>
  BY DEF CancelOrder, Rest
<1>2. EraseOpened(i) /\ RecordClosedOrder(i, "Cancelled") /\ ForgetPending(s, i)
  BY DEF CancelOrder
<1>3. "Cancelled" \in Status
  BY DEF Status
<1> QED
  BY <1>1, <1>2, <1>3, NoTradeIsZero, RestingIsOver

LEMMA MatchRejectedEnds ==
    ASSUME IndInv, PlacesInv, NEW s \in Strategies, NEW i \in Ids, MatchRejected(s, i)
    PROVE  IsOver(i, "Rejected", 0)
<1>1. i \in Rest(s) /\ UNCHANGED <<order, sent, orderQueue>>
  BY DEF MatchRejected, NextToService, Rest, Members
<1>2. EraseOpened(i) /\ RecordClosedOrder(i, "Rejected") /\ ForgetPending(s, i)
  BY DEF MatchRejected
<1>3. "Rejected" \in Status
  BY DEF Status
<1> QED
  BY <1>1, <1>2, <1>3, NoTradeIsZero, RestingIsOver

LEMMA MatchFillsTrades ==
    ASSUME IndInv, PlacesInv, NEW s \in Strategies, NEW i \in Ids, NEW volume \in 1..MaxVolume,
           MatchFills(s, i, volume)
    PROVE  \/ volume = Remaining(i) /\ IsOver(i, "Filled", volume)
           \/ TradesPartly(s, i, volume)
<1>1. i \in Rest(s) /\ UNCHANGED <<sent, orderQueue>>
  BY DEF MatchFills, NextToService, Rest, Members
<1>2. volume \in Nat /\ Book(s, i, volume) /\ order[i] \in AnyOrder
  BY <1>1, RestingIsUnclosed, BoundsAssumption DEF MatchFills
<1>3. Trades(i, volume)
  BY <1>2, BookTrades
<1>4. CASE volume = Remaining(i)
  <2>1. EraseOpened(i) /\ RecordClosedOrder(i, "Filled") /\ ForgetPending(s, i)
    BY <1>4 DEF MatchFills
  <2>2. "Filled" \in Status
    BY DEF Status
  <2> QED
    BY <1>1, <1>2, <1>3, <1>4, <2>1, <2>2, RestingIsOver
<1>5. CASE volume # Remaining(i)
  <2>1. volume <= Remaining(i)
    BY <1>2 DEF MatchFills, Matches, AnyOrder, Remaining
  <2>2. order[i].filled + volume < order[i].volume
    BY <1>2, <1>5, <2>1 DEF AnyOrder, Remaining
  <2>3. /\ opened' = {o \in opened : o.id # i} \union {[id |-> i, filled |-> order[i].filled + volume]}
        /\ UNCHANGED <<closed, pending, scheduled>>
    BY <1>5 DEF MatchFills
  <2> QED
    BY <1>1, <1>3, <2>2, <2>3 DEF TradesPartly
<1> QED
  BY <1>4, <1>5

\* An order may be activated because it waits in one container only.
LEMMA ActivateStays ==
    ASSUME IndInv, PlacesInv, NEW s \in Strategies, NEW i \in Ids, ActivateScheduledOrder(s, i)
    PROVE  Stays
<1>1. /\ pending \in [Strategies -> Seq(Ids)] /\ scheduled \in [Strategies -> SUBSET Ids]
      /\ RestsOnce
  BY DEF IndInv, OrdersInv, TypeOfOrders, PlacesInv
<1>2. /\ i \in scheduled[s]
      /\ scheduled' = [scheduled EXCEPT ![s] = scheduled[s] \ {i}]
      /\ pending' = [pending EXCEPT ![s] = Append(pending[s], i)]
      /\ UNCHANGED <<order, sent, orderQueue, opened, closed>>
  BY DEF ActivateScheduledOrder
<1>3. PICK w : w = Append(pending[s], i)
  OBVIOUS
<1>4. i \notin Members(pending[s]) /\ pending[s] \in Seq(Ids)
  BY <1>1, <1>2 DEF RestsOnce
<1>5. Members(w) = Members(pending[s]) \union {i}
  BY <1>3, <1>4, AppendAddsMember
<1>6. \A k, j \in DOMAIN w : w[k] = w[j] => k = j
  BY <1>1, <1>3, <1>4, AppendKeepsDistinct DEF RestsOnce
<1>7. ASSUME NEW t \in Strategies
      PROVE  /\ Members(pending'[t]) \union scheduled'[t] = Rest(t)
             /\ \A k, j \in DOMAIN pending'[t] : pending'[t][k] = pending'[t][j] => k = j
             /\ Members(pending'[t]) \cap scheduled'[t] = {}
  <2>1. CASE t = s
    <3>1. pending'[t] = w /\ scheduled'[t] = scheduled[t] \ {i}
      BY <1>1, <1>2, <1>3, <2>1
    <3>2. Members(pending[t]) \cap scheduled[t] = {}
      BY <1>1 DEF RestsOnce
    <3>3. Members(w) \union (scheduled[t] \ {i}) = Members(pending[t]) \union scheduled[t]
      BY <1>2, <1>5, <2>1
    <3>4. Members(w) \cap (scheduled[t] \ {i}) = {}
      BY <1>5, <2>1, <3>2
    <3> QED
      BY <1>6, <3>1, <3>3, <3>4 DEF Rest
  <2>2. CASE t # s
    <3>1. pending'[t] = pending[t] /\ scheduled'[t] = scheduled[t]
      BY <1>1, <1>2, <2>2
    <3> QED
      BY <1>1, <3>1 DEF Rest, RestsOnce
  <2> QED
    BY <2>1, <2>2
<1>8. (\A t \in Strategies : Rest(t)' = Rest(t)) /\ RestsOnce'
  BY <1>7 DEF Rest, RestsOnce, Members
<1> QED
  BY <1>2, <1>8 DEF Stays

\* A submission that is answered at once: the order is over without having rested.
LEMMA HeadIsOver ==
    ASSUME IndInv, PlacesInv, NEW s \in Strategies, NEW i \in Ids, Submitting(s, i),
           NEW status \in Status, NEW volume \in Nat, Trades(i, volume),
           RecordClosedOrder(i, status), UNCHANGED <<pending, scheduled, opened>>
    PROVE  IsOver(i, status, volume)
<1>1. /\ i <= sent /\ closed[i] = <<>> /\ sent' = sent /\ \A t \in Strategies : i \notin Rest(t)
      /\ Members(orderQueue') = Members(orderQueue) \ {i}
  BY HeadIsUnclosed
<1>2. closed' = [closed EXCEPT ![i] = <<status>>]
  BY <1>1, FirstEntry
<1>3. \A t \in Strategies : Rest(t)' = Rest(t) \ {i}
  BY <1>1 DEF Rest, Members
<1>4. RestsOnce'
  BY DEF PlacesInv, RestsOnce, Members
<1>5. \A o \in opened : o.id # i
  BY <1>1 DEF PlacesInv, OpenOrdersAreLive, Live, Rest
<1>6. opened' = {o \in opened : o.id # i}
  BY <1>5
<1> QED
  BY <1>1, <1>2, <1>3, <1>4, <1>6 DEF IsOver

\* A submission that is accepted, into one container or the other.
LEMMA HeadRests ==
    ASSUME IndInv, PlacesInv, NEW s \in Strategies, NEW i \in Ids, Submitting(s, i), Open(i),
           UNCHANGED <<order, closed>>,
           \A t \in Strategies \ {s} : pending'[t] = pending[t] /\ scheduled'[t] = scheduled[t],
           \/ /\ pending'[s] = Append(pending[s], i) /\ scheduled'[s] = scheduled[s]
           \/ /\ pending'[s] = pending[s] /\ scheduled'[s] = scheduled[s] \union {i}
    PROVE  StartsToRest(s, i)
<1>1. /\ i <= sent /\ closed[i] = <<>> /\ sent' = sent /\ \A t \in Strategies : i \notin Rest(t)
      /\ Members(orderQueue') = Members(orderQueue) \ {i}
      /\ order[i].filled = 0
  BY HeadIsUnclosed
<1>2. pending[s] \in Seq(Ids) /\ RestsOnce
  BY DEF IndInv, OrdersInv, TypeOfOrders, PlacesInv
<1>3. i \notin Members(pending[s]) /\ i \notin scheduled[s]
  BY <1>1 DEF Rest
<1>4. /\ Members(pending'[s]) \union scheduled'[s] = Rest(s) \union {i}
      /\ \A k, j \in DOMAIN pending'[s] : pending'[s][k] = pending'[s][j] => k = j
      /\ Members(pending'[s]) \cap scheduled'[s] = {}
  <2>1. /\ \A k, j \in DOMAIN pending[s] : pending[s][k] = pending[s][j] => k = j
        /\ Members(pending[s]) \cap scheduled[s] = {}
    BY <1>2 DEF RestsOnce
  <2>2. CASE pending'[s] = Append(pending[s], i) /\ scheduled'[s] = scheduled[s]
    <3>1. PICK w : w = Append(pending[s], i)
      OBVIOUS
    <3>2. Members(w) = Members(pending[s]) \union {i}
      BY <1>2, <3>1, AppendAddsMember
    <3>3. \A k, j \in DOMAIN w : w[k] = w[j] => k = j
      BY <1>2, <1>3, <2>1, <3>1, AppendKeepsDistinct
    <3>4. pending'[s] = w /\ scheduled'[s] = scheduled[s]
      BY <2>2, <3>1
    <3>5. Members(w) \cap scheduled[s] = {}
      BY <1>3, <2>1, <3>2
    <3> QED
      BY <3>2, <3>3, <3>4, <3>5 DEF Rest
  <2>3. CASE pending'[s] = pending[s] /\ scheduled'[s] = scheduled[s] \union {i}
    <3>1. Members(pending[s]) \cap (scheduled[s] \union {i}) = {}
      BY <1>3, <2>1
    <3> QED
      BY <2>1, <2>3, <3>1 DEF Rest
  <2> QED
    BY <2>2, <2>3
<1>5. Rest(s)' = Rest(s) \union {i} /\ \A t \in Strategies \ {s} : Rest(t)' = Rest(t)
  BY <1>4 DEF Rest, Members
<1>6. RestsOnce'
  <2> SUFFICES ASSUME NEW t \in Strategies
               PROVE  /\ \A k, j \in DOMAIN pending'[t] : pending'[t][k] = pending'[t][j] => k = j
                      /\ Members(pending'[t]) \cap scheduled'[t] = {}
    BY DEF RestsOnce, Members
  <2>1. CASE t = s
    BY <1>4, <2>1
  <2>2. CASE t # s
    <3>1. pending'[t] = pending[t] /\ scheduled'[t] = scheduled[t]
      BY <2>2
    <3> QED
      BY <1>2, <3>1 DEF RestsOnce
  <2> QED
    BY <2>1, <2>2
<1>7. s = order[i].strategy /\ opened' = {o \in opened : o.id # i} \union {[id |-> i, filled |-> 0]}
  BY DEF Submitting, Open
<1> QED
  BY <1>1, <1>5, <1>6, <1>7 DEF StartsToRest

LEMMA SubmitSettles ==
    ASSUME IndInv, PlacesInv, NEW s \in Strategies, NEW i \in Ids,
           \/ SubmitRejected(s, i) \/ SubmitFills(s, i)
           \/ SubmitRests(s, i) \/ SubmitScheduled(s, i)
    PROVE  \/ IsOver(i, "Rejected", 0)
           \/ IsOver(i, "Filled", Remaining(i)) /\ Remaining(i) > 0
           \/ StartsToRest(s, i)
<1>1. pending \in [Strategies -> Seq(Ids)] /\ scheduled \in [Strategies -> SUBSET Ids]
  BY DEF IndInv, OrdersInv, TypeOfOrders
<1>2. "Rejected" \in Status /\ "Filled" \in Status
  BY DEF Status
<1>3. CASE SubmitRejected(s, i)
  BY <1>2, <1>3, NoTradeIsZero, HeadIsOver DEF SubmitRejected
<1>4. CASE SubmitFills(s, i)
  <2>1. Submitting(s, i) /\ Book(s, i, order[i].volume) /\ RecordClosedOrder(i, "Filled")
        /\ UNCHANGED <<scheduled, pending, opened>>
    BY <1>4 DEF SubmitFills
  <2>2. order[i] \in AnyOrder /\ order[i].filled = 0 /\ order[i].volume > 0
    BY <2>1, HeadIsUnclosed
  <2>3. order[i].volume \in Nat /\ order[i].volume = Remaining(i) /\ Remaining(i) > 0
    BY <2>2 DEF AnyOrder, Remaining
  <2>4. Trades(i, order[i].volume)
    BY <2>1, <2>3, BookTrades
  <2> QED
    BY <1>2, <2>1, <2>3, <2>4, HeadIsOver
<1>5. CASE SubmitRests(s, i)
  <2>1. /\ Submitting(s, i) /\ Open(i) /\ UNCHANGED <<order, closed, scheduled>>
        /\ pending' = [pending EXCEPT ![s] = Append(pending[s], i)]
    BY <1>5 DEF SubmitRests
  <2>2. pending'[s] = Append(pending[s], i) /\ \A t \in Strategies \ {s} : pending'[t] = pending[t]
    BY <1>1, <2>1
  <2> QED
    BY <2>1, <2>2, HeadRests
<1>6. CASE SubmitScheduled(s, i)
  <2>1. /\ Submitting(s, i) /\ Open(i) /\ UNCHANGED <<order, closed, pending>>
        /\ scheduled' = [scheduled EXCEPT ![s] = scheduled[s] \union {i}]
    BY <1>6 DEF SubmitScheduled
  <2>2. scheduled'[s] = scheduled[s] \union {i} /\ \A t \in Strategies \ {s} : scheduled'[t] = scheduled[t]
    BY <1>1, <2>1
  <2> QED
    BY <2>1, <2>2, HeadRests
<1> QED
  BY <1>3, <1>4, <1>5, <1>6

\* Ticks, day rolls and dispatching leave the orders where they are.
LEMMA OthersStay ==
    ASSUME IndInv, PlacesInv, UNCHANGED <<order, sent, orderQueue, scheduled, pending, opened, closed>>
    PROVE  Stays
<1>1. \A t \in Strategies : Rest(t)' = Rest(t)
  BY DEF Rest, Members
<1>2. RestsOnce'
  BY DEF PlacesInv, RestsOnce, Members
<1> QED
  BY <1>1, <1>2 DEF Stays

\* Every step does one of five things to the orders, or none.
LEMMA StepMovesOrders ==
    ASSUME IndInv, PlacesInv, [Next]_vars
    PROVE  \/ Stays
           \/ \E i \in Ids, s \in Strategies, volume \in 1..MaxVolume : IsSent(s, i, volume)
           \/ \E i \in Ids, s \in Strategies : StartsToRest(s, i)
           \/ \E i \in Ids, s \in Strategies, volume \in 1..MaxVolume : TradesPartly(s, i, volume)
           \/ \E i \in Ids, status \in {"Cancelled", "Rejected"} : IsOver(i, status, 0)
           \/ \E i \in Ids : IsOver(i, "Filled", Remaining(i)) /\ Remaining(i) > 0
<1>1. CASE Callbacks
  <2>1. CASE \E s \in Strategies, r \in Requests, volume \in 1..MaxVolume, p \in Policies :
                SendOrder(s, r, volume, p)
    BY <2>1, SendOrderSends
  <2>2. CASE \E s \in Strategies, i \in Ids : CancelOrder(s, i)
    BY <2>2, CancelOrderEnds
  <2> QED
    BY <1>1, <2>1, <2>2 DEF Callbacks
<1>2. CASE Service
  <2> SUFFICES ASSUME NEW s \in Strategies, NEW i \in Ids,
                      \/ ActivateScheduledOrder(s, i)
                      \/ NotMatched(s, i) \/ MatchRejected(s, i)
                      \/ \E volume \in 1..MaxVolume : MatchFills(s, i, volume)
               PROVE  \/ Stays
                      \/ \E volume \in 1..MaxVolume : TradesPartly(s, i, volume)
                      \/ IsOver(i, "Rejected", 0)
                      \/ IsOver(i, "Filled", Remaining(i)) /\ Remaining(i) > 0
    BY <1>2 DEF Service
  <2>1. CASE NotMatched(s, i)
    BY <2>1, OthersStay DEF NotMatched, engine
  <2>2. CASE \E volume \in 1..MaxVolume : MatchFills(s, i, volume)
    BY <2>2, MatchFillsTrades, BoundsAssumption
  <2> QED
    BY <2>1, <2>2, ActivateStays, MatchRejectedEnds
<1>3. CASE Submit
  <2> SUFFICES ASSUME NEW s \in Strategies, NEW i \in Ids,
                      \/ SubmitRejected(s, i) \/ SubmitFills(s, i)
                      \/ SubmitRests(s, i) \/ SubmitScheduled(s, i)
               PROVE  \/ IsOver(i, "Rejected", 0)
                      \/ IsOver(i, "Filled", Remaining(i)) /\ Remaining(i) > 0
                      \/ StartsToRest(s, i)
    BY <1>3 DEF Submit
  <2> QED
    BY SubmitSettles
<1>4. CASE ProcessTick
  BY <1>4, OthersStay
  DEF ProcessTick, StartDone, SameDayTick, NewDayTick, DayDispatched, TickDispatched, ActivationDone,
      ServiceDone, NothingQueued, DispatchEvent, EventsDispatched, engine
<1>5. CASE UNCHANGED vars
  BY <1>5, OthersStay DEF vars
<1> QED
  BY <1>1, <1>2, <1>3, <1>4, <1>5 DEF Next

-----------------------------------------------------------------------------
(* Each of the five keeps the orders in their places.                      *)

LEMMA LiveIsResting == \A i : Live(i) <=> \E s \in Strategies : i \in Rest(s)
  BY DEF Live, Rest

LEMMA PlacesStart == Init => PlacesInv
<1> SUFFICES ASSUME Init PROVE PlacesInv
  OBVIOUS
<1>1. \A s \in Strategies : Rest(s) = {}
  BY DEF Init, Rest, Members
<1>2. RestsOnce
  BY DEF Init, RestsOnce, Members
<1>3. SentIsReal /\ SentIsSomewhere
  BY BoundsAssumption DEF Init, SentIsReal, SentIsSomewhere, NoOrder, Ids
<1>4. ClosedIsOver
  BY DEF Init, ClosedIsOver
<1>5. RestIsOwn /\ OpenOrdersAreLive
  BY <1>1, LiveIsResting DEF Init, RestIsOwn, OpenOrdersAreLive
<1> QED
  BY <1>2, <1>3, <1>4, <1>5 DEF PlacesInv

LEMMA StaysKeeps == ASSUME PlacesInv, Stays PROVE PlacesInv'
<1>1. \A i : Live(i)' <=> Live(i)
  BY DEF Stays, Live, Rest, Members
<1>2. OpenOrdersAreLive'
  BY <1>1 DEF Stays, PlacesInv, OpenOrdersAreLive
<1>3. SentIsReal' /\ RestsOnce'
  BY DEF Stays, PlacesInv, SentIsReal
<1>4. RestIsOwn'
  BY DEF Stays, PlacesInv, RestIsOwn
<1>5. ClosedIsOver' /\ SentIsSomewhere'
  BY DEF Stays, PlacesInv, ClosedIsOver, Gone, SentIsSomewhere, Members
<1> QED
  BY <1>2, <1>3, <1>4, <1>5 DEF PlacesInv

LEMMA SentKeeps ==
    ASSUME IndInv, PlacesInv, NEW i \in Ids, NEW s \in Strategies, NEW volume \in 1..MaxVolume,
           IsSent(s, i, volume)
    PROVE  PlacesInv'
<1>0. sent \in Nat
  BY BoundsAssumption DEF IndInv, OrdersInv, TypeOfOrders
<1>1. /\ i = sent + 1 /\ sent' = i /\ sent \in Nat
      /\ order'[i].volume = volume /\ order'[i].strategy = s /\ order'[i].filled = 0
      /\ \A j \in Ids \ {i} : order'[j] = order[j]
      /\ Members(orderQueue') = Members(orderQueue) \union {i}
      /\ UNCHANGED <<pending, scheduled, opened, closed>>
  BY <1>0 DEF IsSent
<1>2. \A t \in Strategies : Rest(t)' = Rest(t) /\ Rest(t) \subseteq Ids \ {i}
  <2>1. ASSUME NEW t \in Strategies, NEW j \in Rest(t) PROVE j \in Ids \ {i}
    <3>1. j <= sent
      BY DEF IndInv, OrdersInv, RestingLeftQueue
    <3>2. j \in Ids
      BY DEF IndInv, OrdersInv, TypeOfOrders, Rest, Members
    <3> QED
      BY <1>1, <3>1, <3>2 DEF Ids
  <2> QED
    BY <1>1, <2>1 DEF Rest, Members
<1>3. \A j \in Ids : j <= sent' <=> j <= sent \/ j = i
  BY <1>1 DEF Ids
<1>4. closed[i] = <<>> /\ ~(i <= sent)
  BY <1>1 DEF PlacesInv, ClosedIsOver, Gone
<1>5. SentIsReal'
  <2> SUFFICES ASSUME NEW j \in Ids
               PROVE  /\ j <= sent' => order'[j].volume > 0 /\ order'[j].strategy \in Strategies
                      /\ j > sent' => order'[j].volume = 0 /\ order'[j].filled = 0
    BY DEF SentIsReal
  <2>1. CASE j = i
    BY <1>1, <2>1, BoundsAssumption
  <2>2. CASE j # i
    <3>1. order'[j] = order[j] /\ (j <= sent' <=> j <= sent) /\ (j > sent' <=> j > sent)
      BY <1>1, <1>3, <2>2 DEF Ids
    <3> QED
      BY <3>1 DEF PlacesInv, SentIsReal
  <2> QED
    BY <2>1, <2>2
<1>6. RestIsOwn'
  BY <1>1, <1>2, ZenonT(60) DEF PlacesInv, RestIsOwn
<1>7. RestsOnce'
  BY <1>1 DEF PlacesInv, RestsOnce, Members
<1>8. ClosedIsOver'
  BY <1>1, <1>2, <1>3, <1>4 DEF PlacesInv, ClosedIsOver, Gone
<1>9. SentIsSomewhere'
  BY <1>1, <1>2, <1>3 DEF PlacesInv, SentIsSomewhere
<1>10. OpenOrdersAreLive'
  <2>1. \A j \in Ids : Live(j)' <=> Live(j)
    BY <1>1 DEF Live, Members
  <2>2. \A j \in {k \in Ids : Live(k)} : order'[j].filled = order[j].filled
    BY <1>1, <1>2, LiveIsResting
  <2> QED
    BY <1>1, <2>1, <2>2 DEF PlacesInv, OpenOrdersAreLive
<1> QED
  BY <1>5, <1>6, <1>7, <1>8, <1>9, <1>10 DEF PlacesInv

LEMMA RestKeeps ==
    ASSUME PlacesInv, NEW i \in Ids, NEW s \in Strategies, StartsToRest(s, i)
    PROVE  PlacesInv'
<1>1. /\ s = order[i].strategy /\ i <= sent /\ order[i].filled = 0 /\ closed[i] = <<>>
      /\ Rest(s)' = Rest(s) \union {i} /\ \A t \in Strategies \ {s} : Rest(t)' = Rest(t)
      /\ RestsOnce'
      /\ Members(orderQueue') = Members(orderQueue) \ {i}
      /\ opened' = {o \in opened : o.id # i} \union {[id |-> i, filled |-> 0]}
      /\ UNCHANGED <<order, sent, closed>>
  BY DEF StartsToRest
<1>2. SentIsReal'
  BY <1>1 DEF PlacesInv, SentIsReal
<1>3. RestIsOwn'
  BY <1>1 DEF PlacesInv, RestIsOwn
<1>4. ClosedIsOver'
  <2>1. closed' \in [Ids -> Seq(Status)]
    BY <1>1 DEF PlacesInv, ClosedIsOver
  <2>2. ASSUME NEW j \in Ids, closed'[j] # <<>> PROVE Gone(j)'
    <3>1. j # i /\ Gone(j)
      BY <1>1, <2>2 DEF PlacesInv, ClosedIsOver
    <3> QED
      BY <1>1, <3>1 DEF Gone
  <2> QED
    BY <2>1, <2>2 DEF ClosedIsOver
<1>5. SentIsSomewhere'
  BY <1>1 DEF PlacesInv, SentIsSomewhere
<1>6. \A j \in Ids : Live(j)' <=> Live(j) \/ j = i
  <2>1. \A j \in Ids : Live(j)' <=> \E t \in Strategies : j \in Rest(t)'
    BY DEF Live, Rest, Members
  <2> QED
    BY <1>1, <2>1, LiveIsResting
<1>7. OpenOrdersAreLive'
  <2>1. opened = {[id |-> j, filled |-> order[j].filled] : j \in {k \in Ids : Live(k)}}
    BY DEF PlacesInv, OpenOrdersAreLive
  <2>2. opened' = {[id |-> j, filled |-> order[j].filled] : j \in {k \in Ids : Live(k) \/ k = i}}
    BY <1>1, <2>1
  <2> QED
    BY <1>1, <1>6, <2>2 DEF OpenOrdersAreLive
<1> QED
  BY <1>1, <1>2, <1>3, <1>4, <1>5, <1>7 DEF PlacesInv

\* A trade keeps volume and owner, and no order sent is blank.
LEMMA TradeKeepsSent ==
    ASSUME IndInv, PlacesInv, NEW i \in Ids, NEW volume, Trades(i, volume), i <= sent, sent' = sent
    PROVE  SentIsReal'
<1> SUFFICES ASSUME NEW j \in Ids
             PROVE  /\ j <= sent => order'[j].volume > 0 /\ order'[j].strategy \in Strategies
                    /\ j > sent => order'[j].volume = 0 /\ order'[j].filled = 0
  BY DEF SentIsReal
<1>1. order'[j].volume = order[j].volume /\ order'[j].strategy = order[j].strategy
  BY DEF Trades
<1>2. j > sent => j # i
  BY BoundsAssumption DEF IndInv, OrdersInv, TypeOfOrders, Ids
<1>3. j > sent => order'[j].filled = order[j].filled
  BY <1>2 DEF Trades
<1> QED
  BY <1>1, <1>3 DEF PlacesInv, SentIsReal

LEMMA PartialKeeps ==
    ASSUME IndInv, PlacesInv, NEW i \in Ids, NEW s \in Strategies, NEW volume \in 1..MaxVolume,
           TradesPartly(s, i, volume)
    PROVE  PlacesInv'
<1>1. /\ i \in Rest(s) /\ Trades(i, volume)
      /\ opened' = {o \in opened : o.id # i} \union {[id |-> i, filled |-> order[i].filled + volume]}
      /\ UNCHANGED <<sent, orderQueue, pending, scheduled, closed>>
  BY DEF TradesPartly
<1>2. i <= sent
  BY <1>1, RestingIsUnclosed
<1>3. SentIsReal'
  BY <1>1, <1>2, TradeKeepsSent
<1>4. \A t \in Strategies : Rest(t)' = Rest(t) /\ Rest(t) \subseteq Ids
  BY <1>1 DEF Rest, Members, IndInv, OrdersInv, TypeOfOrders
<1>5. RestIsOwn'
  BY <1>1, <1>4 DEF PlacesInv, RestIsOwn, Trades
<1>6. RestsOnce'
  BY <1>1 DEF PlacesInv, RestsOnce, Members
<1>7. ClosedIsOver' /\ SentIsSomewhere'
  BY <1>1, <1>4 DEF PlacesInv, ClosedIsOver, Gone, SentIsSomewhere, Members
<1>8. \A j \in Ids : Live(j)' <=> Live(j)
  BY <1>1 DEF Live, Members
<1>9. OpenOrdersAreLive'
  <2>1. opened = {[id |-> j, filled |-> order[j].filled] : j \in {k \in Ids : Live(k)}}
    BY DEF PlacesInv, OpenOrdersAreLive
  <2>2. \A j \in Ids \ {i} : order'[j].filled = order[j].filled
    BY <1>1 DEF Trades
  <2>3. order'[i].filled = order[i].filled + volume /\ Live(i)
    BY <1>1, LiveIsResting DEF Trades
  <2>4. {o \in opened : o.id # i} = {[id |-> j, filled |-> order[j].filled] : j \in {k \in Ids : Live(k) /\ k # i}}
    BY <2>1
  <2>5. {[id |-> j, filled |-> order[j].filled] : j \in {k \in Ids : Live(k) /\ k # i}}
        = {[id |-> j, filled |-> order'[j].filled] : j \in {k \in Ids : Live(k) /\ k # i}}
    BY <2>2
  <2>6. opened' = {[id |-> j, filled |-> order'[j].filled] : j \in {k \in Ids : Live(k) /\ k # i}}
                  \union {[id |-> i, filled |-> order'[i].filled]}
    BY <1>1, <2>3, <2>4, <2>5
  <2>7. opened' = {[id |-> j, filled |-> order'[j].filled] : j \in {k \in Ids : Live(k)}}
    BY <2>3, <2>6
  <2> QED
    BY <1>8, <2>7 DEF OpenOrdersAreLive
<1> QED
  BY <1>3, <1>5, <1>6, <1>7, <1>9 DEF PlacesInv

LEMMA OverKeeps ==
    ASSUME IndInv, PlacesInv, NEW i \in Ids, NEW status \in Status, NEW volume, IsOver(i, status, volume)
    PROVE  PlacesInv'
<1>1. /\ i <= sent /\ closed[i] = <<>> /\ Trades(i, volume)
      /\ closed' = [closed EXCEPT ![i] = <<status>>]
      /\ \A t \in Strategies : Rest(t)' = Rest(t) \ {i}
      /\ RestsOnce'
      /\ Members(orderQueue') = Members(orderQueue) \ {i}
      /\ opened' = {o \in opened : o.id # i}
      /\ sent' = sent
  BY DEF IsOver
<1>2. \A t \in Strategies : Rest(t) \subseteq Ids
  BY DEF Rest, Members, IndInv, OrdersInv, TypeOfOrders
<1>3. SentIsReal'
  BY <1>1, TradeKeepsSent
<1>4. RestIsOwn'
  BY <1>1, <1>2 DEF PlacesInv, RestIsOwn, Trades
<1>5. /\ closed \in [Ids -> Seq(Status)] /\ <<status>> \in Seq(Status)
      /\ Len(<<status>>) = 1 /\ <<status>> # <<>>
  BY DEF PlacesInv, ClosedIsOver
<1>6. /\ closed' \in [Ids -> Seq(Status)]
      /\ closed'[i] = <<status>> /\ \A j \in Ids \ {i} : closed'[j] = closed[j]
  BY <1>1, <1>5
<1>7. ClosedIsOver'
  <2>1. ASSUME NEW j \in Ids, closed'[j] # <<>> PROVE Gone(j)'
    <3>1. CASE j = i
      BY <1>1, <1>5, <1>6, <3>1 DEF Gone
    <3>2. CASE j # i
      <4>1. Gone(j) /\ closed'[j] = closed[j]
        BY <1>6, <2>1, <3>2 DEF PlacesInv, ClosedIsOver
      <4> QED
        BY <1>1, <4>1 DEF Gone
    <3> QED
      BY <3>1, <3>2
  <2> QED
    BY <1>6, <2>1 DEF ClosedIsOver
<1>8. SentIsSomewhere'
  <2> SUFFICES ASSUME NEW j \in Ids, j <= sent
               PROVE  \/ j \in Members(orderQueue') \/ closed'[j] # <<>>
                      \/ \E t \in Strategies : j \in Rest(t)'
    BY <1>1 DEF SentIsSomewhere
  <2>1. CASE j = i
    BY <1>5, <1>6, <2>1
  <2>2. CASE j # i
    BY <1>1, <1>6, <2>2 DEF PlacesInv, SentIsSomewhere
  <2> QED
    BY <2>1, <2>2
<1>9. \A j \in Ids : Live(j)' <=> Live(j) /\ j # i
  <2>1. \A j \in Ids : Live(j)' <=> \E t \in Strategies : j \in Rest(t)'
    BY DEF Live, Rest, Members
  <2> QED
    BY <1>1, <2>1, LiveIsResting
<1>10. OpenOrdersAreLive'
  <2>1. opened = {[id |-> j, filled |-> order[j].filled] : j \in {k \in Ids : Live(k)}}
    BY DEF PlacesInv, OpenOrdersAreLive
  <2>2. \A j \in Ids \ {i} : order'[j].filled = order[j].filled
    BY <1>1 DEF Trades
  <2>3. opened' = {[id |-> j, filled |-> order[j].filled] : j \in {k \in Ids : Live(k) /\ k # i}}
    BY <1>1, <2>1
  <2>4. opened' = {[id |-> j, filled |-> order'[j].filled] : j \in {k \in Ids : Live(k) /\ k # i}}
    BY <2>2, <2>3
  <2> QED
    BY <1>9, <2>4 DEF OpenOrdersAreLive
<1> QED
  BY <1>1, <1>3, <1>4, <1>7, <1>8, <1>10 DEF PlacesInv

-----------------------------------------------------------------------------
(* Where process_tick stands, and the events.                              *)

PcName == {"start", "idle", "day", "activate", "service", "tick", "queue", "dispatch"}
RoundName == {"early", "serviced", "submitted"}
AnyMain == [pc : PcName, callee : SUBSET (Strategies \union {NoStrategy}), early : BOOLEAN, round : RoundName,
            next : Nat \ {0}, end : Int, todo : SUBSET Ids]
AnyEvent == [id : Ids, status : Status, filled : Nat]

TypeOfMain == main \in AnyMain
TypeOfEvents == events \in Seq(AnyEvent) /\ slot \in [Ids -> [active : BOOLEAN, filled : Nat]]

\* Outside the queue's rounds the flag knows of every order that rests or waits.
FlagIsDue == \/ At("dispatch")
             \/ At("queue") /\ orderQueue # <<>>
             \/ anyPendingOrders = TRUE
             \/ \A s \in Strategies : Rest(s) = {}

\* The end the range-for took is inside the vector, which only grows under it:
\* by a cancel made from an order update, if strategies make them.
EndIsInside == At("dispatch") => /\ main.end <= Len(events) /\ main.next <= Len(events) + 1
                                 /\ ~CancelsFromUpdates => main.end = Len(events)

LoopInv == TypeOfMain /\ TypeOfEvents /\ FlagIsDue /\ EndIsInside

LEMMA CallingShape ==
    ASSUME TypeOfMain, NEW pc \in PcName, NEW callee \in SUBSET Strategies, Calling(pc, callee)
    PROVE  TypeOfMain' /\ main'.pc = pc
<1>1. PICK early \in BOOLEAN : early = (main.early /\ pc # "idle")
  BY DEF TypeOfMain, AnyMain
<1>2. main' = [pc |-> pc, callee |-> callee, early |-> early, round |-> "early",
               next |-> 1, end |-> 0, todo |-> {}]
  BY <1>1 DEF Calling
<1>3. main' \in AnyMain /\ main'.pc = pc
  BY <1>2 DEF AnyMain, RoundName
<1> QED
  BY <1>3 DEF TypeOfMain

LEMMA DispatchShape ==
    ASSUME TypeOfMain, NEW round \in RoundName, NEW list \in Seq(AnyEvent), Dispatch(round, list)
    PROVE  TypeOfMain' /\ main'.pc = "dispatch" /\ main'.next = 1 /\ main'.end = Len(list)
<1>1. PICK n \in Nat : n = Len(list)
  OBVIOUS
<1>2. main' = [pc |-> "dispatch", callee |-> {}, early |-> main.early, round |-> round,
               next |-> 1, end |-> n, todo |-> {}]
  BY <1>1 DEF TypeOfMain, AnyMain, Dispatch
<1>3. main.early \in BOOLEAN
  BY DEF TypeOfMain, AnyMain
<1>4. main' \in AnyMain /\ main'.pc = "dispatch" /\ main'.next = 1 /\ main'.end = n
  BY <1>2, <1>3 DEF AnyMain, PcName
<1> QED
  BY <1>1, <1>4 DEF TypeOfMain

LEMMA EventTyped ==
    ASSUME NEW i \in Ids, NEW status \in Status, NEW filled \in Nat
    PROVE  Event(i, status, filled) \in AnyEvent
  BY DEF Event, AnyEvent

LEMMA FlagMeans ==
    ASSUME IndInv
    PROVE  OrdersWait \in BOOLEAN /\ (~OrdersWait => \A s \in Strategies : Rest(s) = {})
<1>1. ASSUME NEW s \in Strategies, pending[s] = <<>>, scheduled[s] = {} PROVE Rest(s) = {}
  BY <1>1 DEF Rest, Members
<1> QED
  BY <1>1 DEF OrdersWait

\* No order starts to rest, and the queue is not emptied: what was due is due.
LEMMA FlagStays ==
    ASSUME FlagIsDue, main'.pc = main.pc, orderQueue # <<>> => orderQueue' # <<>>,
           anyPendingOrders' = anyPendingOrders,
           \A s \in Strategies : Rest(s)' \subseteq Rest(s)
    PROVE  FlagIsDue'
  BY DEF FlagIsDue, At

\* Where the queue is not worked on, it does not matter where the loop goes.
LEMMA FlagTravels ==
    ASSUME FlagIsDue, ~At("dispatch"), ~(At("queue") /\ orderQueue # <<>>),
           anyPendingOrders' = anyPendingOrders, UNCHANGED <<pending, scheduled>>
    PROVE  FlagIsDue'
<1>1. \A s \in Strategies : Rest(s)' = Rest(s)
  BY DEF Rest, Members
<1> QED
  BY <1>1 DEF FlagIsDue, At

LEMMA LoopStarts == Init => LoopInv
<1> SUFFICES ASSUME Init PROVE LoopInv
  OBVIOUS
<1>1. TypeOfMain
  <2>1. main = [pc |-> "start", callee |-> Strategies, early |-> FALSE, round |-> "early",
                next |-> 1, end |-> 0, todo |-> {}]
    BY DEF Init
  <2>2. main \in AnyMain
    BY <2>1 DEF AnyMain, PcName, RoundName
  <2> QED
    BY <2>2 DEF TypeOfMain
<1>2. TypeOfEvents
  BY DEF Init, TypeOfEvents, NoSlot
<1>3. FlagIsDue
  BY DEF Init, FlagIsDue, Rest, Members
<1>4. EndIsInside
  BY DEF Init, EndIsInside, At
<1> QED
  BY <1>1, <1>2, <1>3, <1>4 DEF LoopInv

LEMMA CallbacksKeepLoop ==
    ASSUME IndInv, PlacesInv, LoopInv, Callbacks
    PROVE  LoopInv'
<1>1. CASE \E s \in Strategies, r \in Requests, volume \in 1..MaxVolume, p \in Policies :
              SendOrder(s, r, volume, p)
  <2>1. PICK s \in Strategies, r \in Requests, volume \in 1..MaxVolume, p \in Policies :
              SendOrder(s, r, volume, p)
    BY <1>1
  <2>2. /\ UNCHANGED <<main, scheduled, pending, events, anyPendingOrders>>
        /\ orderQueue' = Append(orderQueue, sent + 1)
        /\ slot' = [slot EXCEPT ![sent + 1].active = TRUE]
    BY <2>1 DEF SendOrder
  <2>3. orderQueue' # <<>>
    <3>1. orderQueue \in Seq(Ids) /\ sent + 1 \in Ids
      <4>1. PICK i \in Ids : IsSent(s, i, volume)
        BY <2>1, SendOrderSends
      <4> QED
        BY <4>1 DEF IsSent, IndInv, OrdersInv, TypeOfOrders
    <3> QED
      BY <2>2, <3>1
  <2>4. FlagIsDue'
    BY <2>2, <2>3, FlagStays DEF LoopInv, Rest, Members
  <2>5. slot' \in [Ids -> [active : BOOLEAN, filled : Nat]]
    BY <2>2 DEF LoopInv, TypeOfEvents
  <2> QED
    BY <2>2, <2>4, <2>5 DEF LoopInv, TypeOfMain, TypeOfEvents, EndIsInside, At
<1>2. CASE \E s \in Strategies, i \in Ids : CancelOrder(s, i)
  <2>1. PICK s \in Strategies, i \in Ids : CancelOrder(s, i)
    BY <1>2
  <2>2. /\ events' = Append(events, Event(i, "Cancelled", 0))
        /\ \/ main' = main
           \/ At("dispatch") /\ main' = [main EXCEPT !.end = main.next - 1]
        /\ UNCHANGED <<orderQueue, anyPendingOrders, slot>>
        /\ At("dispatch") => CancelsFromUpdates
        /\ ForgetPending(s, i)
    BY <2>1 DEF CancelOrder
  <2>3. TypeOfMain' /\ main'.pc = main.pc
    BY <2>2 DEF LoopInv, TypeOfMain, AnyMain
  <2>4. \A t \in Strategies : Rest(t)' \subseteq Rest(t)
    BY <2>2, ForgetPendingShape DEF IndInv
  <2>5. FlagIsDue'
    BY <2>2, <2>3, <2>4, FlagStays DEF LoopInv
  <2>6. Event(i, "Cancelled", 0) \in AnyEvent
    BY EventTyped DEF Status
  <2>7. events' \in Seq(AnyEvent) /\ Len(events') = Len(events) + 1 /\ Len(events) \in Nat
    BY <2>2, <2>6 DEF LoopInv, TypeOfEvents
  <2>8. EndIsInside'
    <3> SUFFICES ASSUME main.pc = "dispatch"
                 PROVE  /\ main'.end <= Len(events') /\ main'.next <= Len(events') + 1
                        /\ CancelsFromUpdates
      BY <2>3 DEF EndIsInside, At
    <3>1. /\ main.end <= Len(events) /\ main.end \in Int /\ CancelsFromUpdates
          /\ main.next \in Nat /\ main.next <= Len(events) + 1
      BY <2>2 DEF LoopInv, EndIsInside, TypeOfMain, AnyMain, At
    <3>2. CASE main' = main
      BY <2>7, <3>1, <3>2
    <3>3. CASE main' = [main EXCEPT !.end = main.next - 1]
      <4>1. main'.end = main.next - 1 /\ main'.next = main.next
        BY <3>3 DEF LoopInv, TypeOfMain, AnyMain
      <4> QED
        BY <2>7, <3>1, <4>1
    <3> QED
      BY <2>2, <3>1, <3>2, <3>3
  <2> QED
    BY <2>2, <2>3, <2>5, <2>7, <2>8 DEF LoopInv, TypeOfEvents
<1> QED
  BY <1>1, <1>2 DEF Callbacks

LEMMA ServiceKeepsLoop ==
    ASSUME IndInv, PlacesInv, LoopInv, NEW s \in Strategies, NEW i \in Ids,
           \/ ActivateScheduledOrder(s, i)
           \/ NotMatched(s, i) \/ MatchRejected(s, i)
           \/ \E volume \in 1..MaxVolume : MatchFills(s, i, volume)
    PROVE  LoopInv'
<1>1. \/ main' = [main EXCEPT !.next = i + 1]
      \/ main' = [main EXCEPT !.todo = main.todo \ {i}]
  BY DEF ActivateScheduledOrder, NotMatched, MatchRejected, MatchFills, Serviced
<1>2. i + 1 \in Nat \ {0}
  BY DEF Ids
<1>3. TypeOfMain' /\ main'.pc = main.pc
  BY <1>1, <1>2 DEF LoopInv, TypeOfMain, AnyMain
<1>4. slot' = slot /\ anyPendingOrders' = anyPendingOrders /\ orderQueue' = orderQueue
  BY DEF ActivateScheduledOrder, NotMatched, MatchRejected, MatchFills, engine
<1>5. \A t \in Strategies : Rest(t)' \subseteq Rest(t)
  <2>1. CASE ActivateScheduledOrder(s, i)
    BY <2>1, ActivateStays DEF Stays
  <2>2. CASE NotMatched(s, i)
    BY <2>2 DEF NotMatched, engine, Rest, Members
  <2>3. CASE MatchRejected(s, i)
    BY <2>3, MatchRejectedEnds DEF IsOver
  <2>4. CASE \E volume \in 1..MaxVolume : MatchFills(s, i, volume)
    <3>1. PICK volume \in 1..MaxVolume : MatchFills(s, i, volume)
      BY <2>4
    <3>2. CASE IsOver(i, "Filled", volume)
      BY <3>2 DEF IsOver
    <3>3. CASE TradesPartly(s, i, volume)
      BY <3>3 DEF TradesPartly, Rest, Members
    <3> QED
      BY <3>1, <3>2, <3>3, MatchFillsTrades
  <2> QED
    BY <2>1, <2>2, <2>3, <2>4
<1>6. FlagIsDue'
  BY <1>3, <1>4, <1>5, FlagStays DEF LoopInv
<1>7. events' \in Seq(AnyEvent)
  <2>1. CASE events' = events
    BY <2>1 DEF LoopInv, TypeOfEvents
  <2>2. CASE MatchRejected(s, i)
    <3>1. events' = Append(events, Event(i, "Rejected", 0))
      BY <2>2 DEF MatchRejected
    <3>2. Event(i, "Rejected", 0) \in AnyEvent
      BY EventTyped DEF Status
    <3> QED
      BY <3>1, <3>2 DEF LoopInv, TypeOfEvents
  <2>3. CASE \E volume \in 1..MaxVolume : MatchFills(s, i, volume)
    <3>1. PICK volume \in 1..MaxVolume : MatchFills(s, i, volume)
      BY <2>3
    <3>2. PICK status \in {"Filled", "PartiallyFilled"} : events' = Append(events, Event(i, status, volume))
      BY <3>1 DEF MatchFills
    <3>3. Event(i, status, volume) \in AnyEvent
      BY BoundsAssumption, EventTyped DEF Status
    <3> QED
      BY <3>2, <3>3 DEF LoopInv, TypeOfEvents
  <2> QED
    BY <2>1, <2>2, <2>3 DEF ActivateScheduledOrder, NotMatched
<1>8. EndIsInside'
  BY <1>3 DEF EndIsInside, At, ActivateScheduledOrder, NotMatched, MatchRejected, MatchFills, NextToService
<1> QED
  BY <1>3, <1>4, <1>6, <1>7, <1>8 DEF LoopInv, TypeOfEvents

\* The last submission of a round hands over to the dispatch.
LEMMA SubmitKeepsLoop ==
    ASSUME IndInv, LoopInv, NEW s \in Strategies, NEW i \in Ids,
           \/ SubmitRejected(s, i) \/ SubmitFills(s, i)
           \/ SubmitRests(s, i) \/ SubmitScheduled(s, i)
    PROVE  LoopInv'
<1>1. Submitting(s, i)
  BY DEF SubmitRejected, SubmitFills, SubmitRests, SubmitScheduled
<1>2. PICK status \in Status, filled \in Nat : Submitted(i, status, filled)
  <2>1. order[i].volume \in Nat
    BY DEF IndInv, OrdersInv, TypeOfOrders, AnyOrder
  <2>2. {"Rejected", "Filled", "Accepted"} \subseteq Status
    BY DEF Status
  <2> QED
    BY <2>1, <2>2 DEF SubmitRejected, SubmitFills, SubmitRests, SubmitScheduled
<1>3. PICK list : list = events \o <<Event(i, "Submitted", 0), Event(i, status, filled)>>
  OBVIOUS
<1>4. list \in Seq(AnyEvent)
  <2>1. Event(i, "Submitted", 0) \in AnyEvent /\ Event(i, status, filled) \in AnyEvent
    BY EventTyped DEF Status
  <2> QED
    BY <1>3, <2>1 DEF LoopInv, TypeOfEvents
<1>5. /\ events' = list
      /\ IF Len(orderQueue) = 1 THEN Dispatch("submitted", list) ELSE main' = main
  BY <1>2, <1>3 DEF Submitted
<1>6. TypeOfEvents'
  BY <1>1, <1>4, <1>5 DEF Submitting, LoopInv, TypeOfEvents
<1>7. CASE Len(orderQueue) = 1
  <2>1. Dispatch("submitted", list) /\ TypeOfMain
    BY <1>5, <1>7 DEF LoopInv
  <2>2. TypeOfMain' /\ main'.pc = "dispatch" /\ main'.next = 1 /\ main'.end = Len(events')
    BY <1>4, <1>5, <2>1, DispatchShape DEF RoundName
  <2>3. Len(events') \in Nat
    BY <1>4, <1>5
  <2> QED
    BY <1>6, <2>2, <2>3 DEF LoopInv, FlagIsDue, EndIsInside, At
<1>8. CASE Len(orderQueue) # 1
  <2>1. main' = main /\ main.pc = "queue"
    BY <1>1, <1>5, <1>8 DEF Submitting, At
  <2>2. orderQueue' # <<>>
    <3>1. orderQueue' \in Seq(Ids) /\ Len(orderQueue) \in Nat /\ Len(orderQueue') = Len(orderQueue) - 1
      BY <1>1, HeadIsFresh
    <3> QED
      BY <1>8, <3>1
  <2> QED
    BY <1>6, <2>1, <2>2 DEF LoopInv, TypeOfMain, FlagIsDue, EndIsInside, At
<1> QED
  BY <1>7, <1>8

\* Where process_tick goes, and which event it dispatches, leaves vector and flag alone.
LEMMA WalkKeepsLoop ==
    ASSUME IndInv, LoopInv,
           \/ StartDone \/ SameDayTick \/ NewDayTick \/ DayDispatched \/ TickDispatched
           \/ ActivationDone \/ ServiceDone \/ NothingQueued
    PROVE  LoopInv'
<1>1. ~At("dispatch") /\ ~(At("queue") /\ orderQueue # <<>>)
  BY DEF At, StartDone, SameDayTick, NewDayTick, DayDispatched, TickDispatched, ActivationDone,
         ServiceDone, NothingQueued
<1>2. UNCHANGED <<pending, scheduled, events, anyPendingOrders, slot>>
  BY DEF StartDone, SameDayTick, NewDayTick, DayDispatched, TickDispatched, ActivationDone,
         ServiceDone, NothingQueued, engine
<1>3. FlagIsDue' /\ TypeOfEvents'
  BY <1>1, <1>2, FlagTravels DEF LoopInv, TypeOfEvents
<1>4. TypeOfMain' /\ EndIsInside'
  <2>1. CASE StartDone \/ NothingQueued \/ DayDispatched
    BY <2>1, CallingShape
    DEF LoopInv, StartDone, NothingQueued, DayDispatched, GoTo, CallBack, PcName, EndIsInside, At
  <2>2. CASE SameDayTick
    BY <2>2 DEF SameDayTick, LoopInv, TypeOfMain, AnyMain, PcName, EndIsInside, At
  <2>3. CASE NewDayTick
    BY <2>3 DEF NewDayTick, LoopInv, TypeOfMain, AnyMain, PcName, EndIsInside, At
  <2>4. CASE TickDispatched \/ ServiceDone
    <3>1. \/ \E pc \in {"queue", "activate", "tick"}, callee \in {{}, Strategies} : Calling(pc, callee)
          \/ \E round \in {"early", "serviced"} : Dispatch(round, events)
      BY <2>4 DEF TickDispatched, ServiceDone, GoTo, CallBack
    <3>2. CASE \E pc \in {"queue", "activate", "tick"}, callee \in {{}, Strategies} : Calling(pc, callee)
      BY <3>2, CallingShape DEF LoopInv, PcName, EndIsInside, At
    <3>3. CASE \E round \in {"early", "serviced"} : Dispatch(round, events)
      <4>1. events \in Seq(AnyEvent) /\ events' = events /\ Len(events) \in Nat
        BY <1>2 DEF LoopInv, TypeOfEvents
      <4>2. TypeOfMain' /\ main'.next = 1 /\ main'.end = Len(events)
        BY <3>3, <4>1, DispatchShape DEF LoopInv, RoundName
      <4> QED
        BY <4>1, <4>2 DEF EndIsInside
    <3> QED
      BY <3>1, <3>2, <3>3
  <2>5. CASE ActivationDone
    <3>1. PICK todo \in SUBSET Ids : main' = [main EXCEPT !.pc = "service", !.next = 1, !.todo = todo]
      <4>1. UNION {Members(pending[s]) : s \in Strategies} \subseteq Ids
        BY DEF IndInv, OrdersInv, TypeOfOrders, Members
      <4>2. CASE anyPendingOrders
        BY <2>5, <4>1, <4>2 DEF ActivationDone
      <4>3. CASE ~anyPendingOrders
        BY <2>5, <4>3 DEF ActivationDone
      <4> QED
        BY <4>2, <4>3
    <3>2. main' = [pc |-> "service", callee |-> main.callee, early |-> main.early, round |-> main.round,
                   next |-> 1, end |-> main.end, todo |-> todo]
      BY <3>1 DEF LoopInv, TypeOfMain, AnyMain
    <3>3. main' \in AnyMain /\ main'.pc = "service"
      BY <3>2 DEF LoopInv, TypeOfMain, AnyMain, PcName
    <3> QED
      BY <3>3 DEF TypeOfMain, EndIsInside, At
  <2> QED
    BY <2>1, <2>2, <2>3, <2>4, <2>5
<1> QED
  BY <1>3, <1>4 DEF LoopInv

LEMMA DispatchEventKeepsLoop ==
    ASSUME IndInv, LoopInv, DispatchEvent
    PROVE  /\ LoopInv' /\ main'.pc = "dispatch"
           /\ main'.next = main.next + 1 /\ main'.end = main.end
<1>0. /\ main.next \in 1..Len(events) /\ main.next \in Nat /\ main.end \in Int
      /\ events \in Seq(AnyEvent) /\ main.pc = "dispatch"
  <2>1. main.next \in Nat \ {0} /\ main.end \in Int
    BY DEF LoopInv, TypeOfMain, AnyMain
  <2>2. events \in Seq(AnyEvent) /\ Len(events) \in Nat
    BY DEF LoopInv, TypeOfEvents
  <2>3. main.next <= main.end /\ main.end <= Len(events) /\ main.pc = "dispatch"
    BY DEF DispatchEvent, LoopInv, EndIsInside, At
  <2> QED
    BY <2>1, <2>2, <2>3
<1>1. PICK e \in AnyEvent : e = events[main.next]
  BY <1>0
<1>2. /\ slot' = [slot EXCEPT ![e.id] = SlotUpdate(slot[e.id], e)]
      /\ main' = [main EXCEPT !.next = main.next + 1, !.callee = {order[e.id].strategy}]
      /\ UNCHANGED <<engine, events, anyPendingOrders>> /\ main.pc = "dispatch"
  BY <1>1 DEF DispatchEvent, At
<1>3. slot[e.id] \in [active : BOOLEAN, filled : Nat] /\ e.filled \in Nat /\ e.id \in Ids
  BY <1>1 DEF LoopInv, TypeOfEvents, AnyEvent
<1>4. SlotUpdate(slot[e.id], e) \in [active : BOOLEAN, filled : Nat]
  <2>1. MaxOf(slot[e.id].filled, e.filled) \in Nat
    BY <1>3 DEF MaxOf
  <2>2. PICK active \in BOOLEAN : active = ~IsTerminalStatus(e.status)
    BY DEF IsTerminalStatus
  <2> QED
    BY <1>3, <2>1, <2>2 DEF SlotUpdate
<1>5. TypeOfEvents'
  BY <1>2, <1>3, <1>4 DEF LoopInv, TypeOfEvents
<1>6. order[e.id].strategy \in Strategies \union {NoStrategy}
  BY <1>3 DEF IndInv, OrdersInv, TypeOfOrders, AnyOrder
<1>7. /\ TypeOfMain' /\ main'.pc = "dispatch"
      /\ main'.next = main.next + 1 /\ main'.end = main.end
  <2>1. PICK callee \in SUBSET (Strategies \union {NoStrategy}) : callee = {order[e.id].strategy}
    BY <1>6
  <2>2. PICK next \in Nat \ {0} : next = main.next + 1
    BY <1>0
  <2>3. main' = [main EXCEPT !.next = next, !.callee = callee]
    BY <1>2, <2>1, <2>2
  <2>4. TypeOfMain' /\ main'.pc = main.pc /\ main'.next = next /\ main'.end = main.end
    BY <2>3 DEF LoopInv, TypeOfMain, AnyMain
  <2> QED
    BY <1>0, <2>2, <2>4
<1>8. FlagIsDue' /\ EndIsInside'
  BY <1>0, <1>2, <1>7 DEF LoopInv, FlagIsDue, EndIsInside, At
<1> QED
  BY <1>5, <1>7, <1>8 DEF LoopInv

LEMMA EventsDispatchedKeepsLoop ==
    ASSUME IndInv, LoopInv, EventsDispatched
    PROVE  LoopInv'
<1>1. /\ events' = <<>> /\ anyPendingOrders' = OrdersWait
      /\ UNCHANGED <<engine, slot>>
      /\ \E pc \in {"activate", "idle", "queue", "tick"}, callee \in {{}, Strategies} : Calling(pc, callee)
  BY DEF EventsDispatched, GoTo, CallBack
<1>2. TypeOfMain' /\ main'.pc # "dispatch"
  BY <1>1, CallingShape DEF LoopInv, PcName
<1>3. TypeOfEvents' /\ EndIsInside'
  BY <1>1, <1>2 DEF LoopInv, TypeOfEvents, EndIsInside, At
<1>4. \A s \in Strategies : Rest(s)' = Rest(s)
  BY <1>1 DEF engine, Rest, Members
<1>5. FlagIsDue'
  BY <1>1, <1>4, FlagMeans DEF FlagIsDue
<1> QED
  BY <1>2, <1>3, <1>5 DEF LoopInv

LEMMA StepKeepsLoop ==
    ASSUME IndInv, PlacesInv, LoopInv, [Next]_vars
    PROVE  LoopInv'
<1>1. CASE Callbacks
  BY <1>1, CallbacksKeepLoop
<1>2. CASE Service
  BY <1>2, ServiceKeepsLoop DEF Service
<1>3. CASE Submit
  BY <1>3, SubmitKeepsLoop DEF Submit
<1>4. CASE ProcessTick
  BY <1>4, WalkKeepsLoop, DispatchEventKeepsLoop, EventsDispatchedKeepsLoop DEF ProcessTick
<1>5. CASE UNCHANGED vars
  BY <1>5 DEF vars, LoopInv, TypeOfMain, TypeOfEvents, FlagIsDue, EndIsInside, At, Rest, Members
<1> QED
  BY <1>1, <1>2, <1>3, <1>4, <1>5 DEF Next

-----------------------------------------------------------------------------
(* What a strategy is told of an end.                                      *)

FirstUnread == IF At("dispatch") THEN main.next ELSE 1
IsDue(i) ==
    \E k \in DOMAIN events :
        k >= FirstUnread /\ events[k].id = i /\ IsTerminalStatus(events[k].status)

\* An order that is over and whose strategy thinks it open has its end in the vector,
\* where the loop still comes by.
EndsAreDue == \A i \in Ids : closed[i] # <<>> /\ slot[i].active => IsDue(i)

\* Nothing is taken from the vector, and the loop starts over or has not begun.
LEMMA DueStays ==
    ASSUME LoopInv, ~At("dispatch"), main'.pc = "dispatch" => main'.next = 1,
           Len(events') \in Nat, DOMAIN events' = 1..Len(events'), Len(events') >= Len(events),
           \A k \in 1..Len(events) : events'[k] = events[k]
    PROVE  \A i \in Ids : IsDue(i) => IsDue(i)'
<1>1. DOMAIN events = 1..Len(events) /\ Len(events) \in Nat
  BY DEF LoopInv, TypeOfEvents
<1>2. FirstUnread' = 1
  BY DEF FirstUnread, At
<1>3. DOMAIN events \subseteq DOMAIN events' /\ \A k \in DOMAIN events : k >= 1
  BY <1>1
<1> QED
  BY <1>1, <1>2, <1>3 DEF IsDue

\* What is not closed by a step, nor opened to the strategy, stays as due as it was.
LEMMA SameEnds ==
    ASSUME LoopInv, EndsAreDue, ~At("dispatch"), main'.pc = "dispatch" => main'.next = 1,
           UNCHANGED <<events, closed, slot>>
    PROVE  EndsAreDue'
<1>1. Len(events) \in Nat /\ DOMAIN events = 1..Len(events)
  BY DEF LoopInv, TypeOfEvents
<1>2. \A i \in Ids : IsDue(i) => IsDue(i)'
  BY <1>1, DueStays
<1> QED
  BY <1>2 DEF EndsAreDue

\* An order closed with its event queued, outside a dispatch.
LEMMA EndIsQueued ==
    ASSUME LoopInv, EndsAreDue, ~At("dispatch"), main'.pc = main.pc,
           NEW i \in Ids, NEW e \in AnyEvent, events' = Append(events, e), slot' = slot,
           \A j \in Ids \ {i} : closed'[j] = closed[j],
           closed'[i] = closed[i] \/ (e.id = i /\ IsTerminalStatus(e.status))
    PROVE  EndsAreDue'
<1>1. events \in Seq(AnyEvent) /\ Len(events) \in Nat
  BY DEF LoopInv, TypeOfEvents
<1>2. /\ events' \in Seq(AnyEvent) /\ Len(events') = Len(events) + 1
      /\ \A k \in 1..Len(events) : events'[k] = events[k]
      /\ events'[Len(events) + 1] = e
  BY <1>1, AppendProperties
<1>3. Len(events') \in Nat /\ DOMAIN events' = 1..Len(events') /\ Len(events') >= Len(events)
  BY <1>1, <1>2
<1>4. \A j \in Ids : IsDue(j) => IsDue(j)'
  BY <1>2, <1>3, DueStays DEF At
<1>5. e.id = i /\ IsTerminalStatus(e.status) => IsDue(i)'
  <2>1. FirstUnread' = 1 /\ Len(events) + 1 \in DOMAIN events' /\ Len(events) + 1 >= 1
    BY <1>1, <1>2, <1>3 DEF FirstUnread, At
  <2> QED
    BY <1>2, <2>1 DEF IsDue
<1> QED
  BY <1>4, <1>5 DEF EndsAreDue

LEMMA CallbacksKeepDue ==
    ASSUME IndInv, PlacesInv, LoopInv, EndsAreDue, ~CancelsFromUpdates, Callbacks
    PROVE  EndsAreDue'
<1>1. CASE \E s \in Strategies, r \in Requests, volume \in 1..MaxVolume, p \in Policies :
              SendOrder(s, r, volume, p)
  <2>1. PICK s \in Strategies, r \in Requests, volume \in 1..MaxVolume, p \in Policies :
              SendOrder(s, r, volume, p)
    BY <1>1
  <2>2. PICK i \in Ids : IsSent(s, i, volume)
    BY <2>1, SendOrderSends
  <2>3. i = sent + 1 /\ sent \in Nat
    BY <2>2, BoundsAssumption DEF IsSent, IndInv, OrdersInv, TypeOfOrders
  <2>4. closed[i] = <<>>
    BY <2>3 DEF PlacesInv, ClosedIsOver, Gone
  <2>5. /\ UNCHANGED <<main, events, closed>>
        /\ slot' = [slot EXCEPT ![i].active = TRUE]
    BY <2>1, <2>3 DEF SendOrder
  <2>6. \A j \in Ids \ {i} : slot'[j] = slot[j]
    BY <2>5 DEF LoopInv, TypeOfEvents
  <2>7. \A j \in Ids : IsDue(j)' <=> IsDue(j)
    BY <2>5 DEF IsDue, FirstUnread, At
  <2> QED
    BY <2>4, <2>5, <2>6, <2>7 DEF EndsAreDue
<1>2. CASE \E s \in Strategies, i \in Ids : CancelOrder(s, i)
  <2>1. PICK s \in Strategies, i \in Ids : CancelOrder(s, i)
    BY <1>2
  <2>2. /\ ~At("dispatch") /\ main' = main /\ slot' = slot
        /\ events' = Append(events, Event(i, "Cancelled", 0))
    BY <2>1 DEF CancelOrder
  <2>3. PICK e : e = Event(i, "Cancelled", 0)
    OBVIOUS
  <2>4. e \in AnyEvent
    BY <2>3, EventTyped DEF Status
  <2>5. e.id = i /\ IsTerminalStatus(e.status)
    BY <2>3 DEF Event, IsTerminalStatus
  <2>6. \A j \in Ids \ {i} : closed'[j] = closed[j]
    BY <2>1 DEF CancelOrder, RecordClosedOrder, PlacesInv, ClosedIsOver
  <2> QED
    BY <2>2, <2>3, <2>4, <2>5, <2>6, EndIsQueued
<1> QED
  BY <1>1, <1>2 DEF Callbacks

LEMMA ServiceKeepsDue ==
    ASSUME IndInv, PlacesInv, LoopInv, EndsAreDue, NEW s \in Strategies, NEW i \in Ids,
           \/ ActivateScheduledOrder(s, i)
           \/ NotMatched(s, i) \/ MatchRejected(s, i)
           \/ \E volume \in 1..MaxVolume : MatchFills(s, i, volume)
    PROVE  EndsAreDue'
<1>1. \/ main' = [main EXCEPT !.next = i + 1]
      \/ main' = [main EXCEPT !.todo = main.todo \ {i}]
  BY DEF ActivateScheduledOrder, NotMatched, MatchRejected, MatchFills, Serviced
<1>2. main'.pc = main.pc
  BY <1>1 DEF LoopInv, TypeOfMain, AnyMain
<1>3. ~At("dispatch") /\ slot' = slot
  BY DEF At, ActivateScheduledOrder, NotMatched, MatchRejected, MatchFills, NextToService
<1>4. closed \in [Ids -> Seq(Status)]
  BY DEF PlacesInv, ClosedIsOver
<1>5. CASE ActivateScheduledOrder(s, i) \/ NotMatched(s, i)
  BY <1>2, <1>3, <1>5, SameEnds DEF ActivateScheduledOrder, NotMatched, engine, At
<1>6. CASE MatchRejected(s, i)
  <2>1. PICK e : e = Event(i, "Rejected", 0)
    OBVIOUS
  <2>2. e \in AnyEvent
    BY <2>1, EventTyped DEF Status
  <2>3. e.id = i /\ IsTerminalStatus(e.status) /\ events' = Append(events, e)
    BY <1>6, <2>1 DEF MatchRejected, Event, IsTerminalStatus
  <2>4. \A j \in Ids \ {i} : closed'[j] = closed[j]
    BY <1>4, <1>6 DEF MatchRejected, RecordClosedOrder
  <2> QED
    BY <1>2, <1>3, <2>2, <2>3, <2>4, EndIsQueued
<1>7. CASE \E volume \in 1..MaxVolume : MatchFills(s, i, volume)
  <2>1. PICK volume \in 1..MaxVolume : MatchFills(s, i, volume)
    BY <1>7
  <2>2. PICK status \in {"Filled", "PartiallyFilled"} :
            /\ events' = Append(events, Event(i, status, volume))
            /\ \/ status = "Filled" /\ RecordClosedOrder(i, "Filled")
               \/ closed' = closed
    BY <2>1 DEF MatchFills
  <2>3. PICK e : e = Event(i, status, volume)
    OBVIOUS
  <2>4. e \in AnyEvent
    BY <2>3, BoundsAssumption, EventTyped DEF Status
  <2>5. e.id = i /\ e.status = status
    BY <2>3 DEF Event
  <2>6. \A j \in Ids \ {i} : closed'[j] = closed[j]
    BY <1>4, <2>2 DEF RecordClosedOrder
  <2>7. closed'[i] = closed[i] \/ (e.id = i /\ IsTerminalStatus(e.status))
    BY <2>2, <2>5 DEF IsTerminalStatus
  <2> QED
    BY <1>2, <1>3, <2>2, <2>3, <2>4, <2>6, <2>7, EndIsQueued
<1> QED
  BY <1>5, <1>6, <1>7

LEMMA SubmitKeepsDue ==
    ASSUME IndInv, PlacesInv, LoopInv, EndsAreDue, NEW s \in Strategies, NEW i \in Ids,
           \/ SubmitRejected(s, i) \/ SubmitFills(s, i)
           \/ SubmitRests(s, i) \/ SubmitScheduled(s, i)
    PROVE  EndsAreDue'
<1>1. Submitting(s, i)
  BY DEF SubmitRejected, SubmitFills, SubmitRests, SubmitScheduled
<1>2. PICK status \in Status, filled \in Nat :
          /\ Submitted(i, status, filled)
          /\ \/ RecordClosedOrder(i, status) /\ IsTerminalStatus(status)
             \/ closed' = closed
  <2>1. order[i].volume \in Nat
    BY DEF IndInv, OrdersInv, TypeOfOrders, AnyOrder
  <2>2. {"Rejected", "Filled", "Accepted"} \subseteq Status
    BY DEF Status
  <2>3. IsTerminalStatus("Rejected") /\ IsTerminalStatus("Filled")
    BY DEF IsTerminalStatus
  <2> QED
    BY <2>1, <2>2, <2>3 DEF SubmitRejected, SubmitFills, SubmitRests, SubmitScheduled
<1>3. PICK a, b : a = Event(i, "Submitted", 0) /\ b = Event(i, status, filled)
  OBVIOUS
<1>4. a \in AnyEvent /\ b \in AnyEvent /\ b.id = i /\ b.status = status
  BY <1>3, EventTyped DEF Status, Event
<1>5. events \in Seq(AnyEvent) /\ Len(events) \in Nat
  BY DEF LoopInv, TypeOfEvents
<1>6. /\ events' = events \o <<a, b>>
      /\ IF Len(orderQueue) = 1 THEN Dispatch("submitted", events \o <<a, b>>) ELSE main' = main
  BY <1>2, <1>3 DEF Submitted
<1>7. events' \in Seq(AnyEvent)
  BY <1>4, <1>5, <1>6
<1>8. /\ Len(events') = Len(events) + 2 /\ DOMAIN events' = 1..Len(events')
      /\ \A k \in 1..Len(events) : events'[k] = events[k]
      /\ events'[Len(events) + 2] = b
  BY <1>4, <1>5, <1>6
<1>9. ~At("dispatch") /\ main.pc = "queue" /\ slot' = slot
  BY <1>1 DEF Submitting, At
<1>10. main'.pc = "dispatch" => main'.next = 1
  <2>1. CASE Len(orderQueue) = 1
    <3>1. Dispatch("submitted", events') /\ TypeOfMain
      BY <1>6, <2>1 DEF LoopInv
    <3> QED
      BY <1>7, <3>1, DispatchShape DEF RoundName
  <2>2. CASE Len(orderQueue) # 1
    BY <1>6, <1>9, <2>2
  <2> QED
    BY <2>1, <2>2
<1>11. \A j \in Ids : IsDue(j) => IsDue(j)'
  BY <1>5, <1>8, <1>9, <1>10, DueStays
<1>12. IsTerminalStatus(status) => IsDue(i)'
  <2>1. FirstUnread' = 1 /\ Len(events) + 2 \in DOMAIN events' /\ Len(events) + 2 >= 1
    BY <1>5, <1>8, <1>10 DEF FirstUnread, At
  <2> QED
    BY <1>4, <1>8, <2>1 DEF IsDue
<1>13. \A j \in Ids \ {i} : closed'[j] = closed[j]
  BY <1>2 DEF RecordClosedOrder, PlacesInv, ClosedIsOver
<1> QED
  BY <1>2, <1>9, <1>11, <1>12, <1>13 DEF EndsAreDue

LEMMA WalkKeepsDue ==
    ASSUME IndInv, LoopInv, EndsAreDue,
           \/ StartDone \/ SameDayTick \/ NewDayTick \/ DayDispatched \/ TickDispatched
           \/ ActivationDone \/ ServiceDone \/ NothingQueued
    PROVE  EndsAreDue'
<1>1. ~At("dispatch")
  BY DEF At, StartDone, SameDayTick, NewDayTick, DayDispatched, TickDispatched, ActivationDone,
         ServiceDone, NothingQueued
<1>2. UNCHANGED <<events, closed, slot>>
  BY DEF StartDone, SameDayTick, NewDayTick, DayDispatched, TickDispatched, ActivationDone,
         ServiceDone, NothingQueued, engine
<1>3. main'.pc = "dispatch" => main'.next = 1
  <2>1. CASE \E round \in {"early", "serviced"} : Dispatch(round, events)
    BY <2>1, DispatchShape DEF LoopInv, TypeOfEvents, RoundName
  <2>2. CASE \E pc \in PcName \ {"dispatch"}, callee \in SUBSET Strategies : Calling(pc, callee)
    BY <2>2, CallingShape DEF LoopInv
  <2>3. CASE StartDone \/ NothingQueued \/ DayDispatched \/ TickDispatched \/ ServiceDone
    BY <2>1, <2>2, <2>3
    DEF StartDone, NothingQueued, DayDispatched, TickDispatched, ServiceDone, GoTo, CallBack, PcName
  <2>4. CASE SameDayTick \/ NewDayTick \/ ActivationDone
    BY <2>4 DEF SameDayTick, NewDayTick, ActivationDone, LoopInv, TypeOfMain, AnyMain
  <2> QED
    BY <2>3, <2>4
<1> QED
  BY <1>1, <1>2, <1>3, SameEnds

\* The event read is not due any more, and the strategy has cleared the slot.
LEMMA DispatchEventKeepsDue ==
    ASSUME IndInv, LoopInv, EndsAreDue, DispatchEvent
    PROVE  EndsAreDue'
<1>1. /\ main'.pc = "dispatch" /\ main.pc = "dispatch" /\ main'.next = main.next + 1
      /\ main.next \in Nat /\ UNCHANGED <<events, closed>>
  BY DispatchEventKeepsLoop DEF DispatchEvent, engine, At, LoopInv, TypeOfMain, AnyMain
<1>2. PICK e : e = events[main.next]
  OBVIOUS
<1>3. slot' = [slot EXCEPT ![e.id] = SlotUpdate(slot[e.id], e)]
  BY <1>2 DEF DispatchEvent
<1>4. slot \in [Ids -> [active : BOOLEAN, filled : Nat]] /\ DOMAIN events \subseteq Nat
  BY DEF LoopInv, TypeOfEvents
<1> SUFFICES ASSUME NEW i \in Ids, closed[i] # <<>>, slot'[i].active
             PROVE  IsDue(i)'
  BY <1>1 DEF EndsAreDue
<1>5. slot[i].active /\ ~(e.id = i /\ IsTerminalStatus(e.status))
  <2>1. CASE i = e.id
    <3>1. slot'[i] = SlotUpdate(slot[i], e)
      BY <1>3, <1>4, <2>1
    <3>2. slot[i].active
      BY <3>1 DEF SlotUpdate
    <3>3. ~IsTerminalStatus(e.status)
      <4> SUFFICES ASSUME IsTerminalStatus(e.status) PROVE FALSE
        OBVIOUS
      <4>1. (~IsTerminalStatus(e.status)) = FALSE
        OBVIOUS
      <4>2. SlotUpdate(slot[i], e) = [active |-> FALSE, filled |-> MaxOf(slot[i].filled, e.filled)]
        BY <3>2, <4>1 DEF SlotUpdate
      <4>3. slot'[i].active = FALSE
        BY <3>1, <4>2
      <4> QED
        BY <4>3
    <3> QED
      BY <2>1, <3>2, <3>3
  <2>2. CASE i # e.id
    BY <1>3, <1>4, <2>2
  <2> QED
    BY <2>1, <2>2
<1>6. PICK k \in DOMAIN events :
          k >= main.next /\ events[k].id = i /\ IsTerminalStatus(events[k].status)
  BY <1>1, <1>5 DEF EndsAreDue, IsDue, FirstUnread, At
<1>7. k >= main.next + 1
  BY <1>1, <1>2, <1>4, <1>5, <1>6
<1> QED
  BY <1>1, <1>6, <1>7 DEF IsDue, FirstUnread, At

\* The loop has read the whole vector: no end is due, so none is missing.
LEMMA EventsDispatchedKeepsDue ==
    ASSUME LoopInv, EndsAreDue, ~CancelsFromUpdates, EventsDispatched
    PROVE  EndsAreDue'
<1>1. /\ main.next > main.end /\ main.pc = "dispatch" /\ main.end = Len(events)
      /\ main.next \in Nat /\ DOMAIN events = 1..Len(events) /\ Len(events) \in Nat
      /\ UNCHANGED <<closed, slot>>
  BY DEF EventsDispatched, engine, LoopInv, EndIsInside, TypeOfMain, AnyMain, TypeOfEvents, At
<1>2. \A i \in Ids : ~IsDue(i)
  BY <1>1 DEF IsDue, FirstUnread, At
<1> QED
  BY <1>1, <1>2 DEF EndsAreDue

-----------------------------------------------------------------------------
(* The life of an order, as OrderLife tells it.                            *)

Volumes == [i \in Ids |-> order[i].volume]
Life == [i \in Ids |-> [state |-> StateOf(i), filled |-> order[i].filled]]

LEMMA StateIsSame ==
    ASSUME NEW j \in Ids, closed'[j] = closed[j], Live(j)' <=> Live(j)
    PROVE  StateOf(j)' = StateOf(j)
<1>1. CASE closed[j] # <<>>
  BY <1>1 DEF StateOf
<1>2. CASE closed[j] = <<>> /\ Live(j)
  BY <1>2 DEF StateOf
<1>3. CASE closed[j] = <<>> /\ ~Live(j)
  BY <1>3 DEF StateOf
<1> QED
  BY <1>1, <1>2, <1>3

\* An order that is not closed is new or accepted.
LEMMA UnclosedState ==
    ASSUME NEW i \in Ids, closed[i] = <<>>
    PROVE  StateOf(i) = IF Live(i) THEN "Accepted" ELSE "new"
  BY DEF StateOf

LEMMA LifeOfOne ==
    ASSUME NEW i \in Ids, NEW state, NEW filled,
           \A j \in Ids \ {i} : StateOf(j)' = StateOf(j) /\ order'[j].filled = order[j].filled,
           StateOf(i)' = state, order'[i].filled = filled
    PROVE  Life' = [Life EXCEPT ![i] = [state |-> state, filled |-> filled]]
  BY DEF Life

LEMMA StayStutters == ASSUME Stays PROVE Volumes' = Volumes /\ Life' = Life
<1>1. \A j \in Ids : closed'[j] = closed[j] /\ (Live(j)' <=> Live(j))
  BY DEF Stays, Live, Rest, Members
<1>2. \A j \in Ids : StateOf(j)' = StateOf(j)
  BY <1>1, StateIsSame
<1>3. order' = order
  BY DEF Stays
<1> QED
  BY <1>2, <1>3 DEF Volumes, Life

LEMMA SentIsSend ==
    ASSUME IndInv, PlacesInv, NEW i \in Ids, NEW s \in Strategies, NEW volume \in 1..MaxVolume,
           IsSent(s, i, volume)
    PROVE  Lives!Send(i, volume)
<1>1. order[i].volume = 0 /\ order[i].filled = 0
  <2>1. sent \in Nat /\ i = sent + 1
    BY BoundsAssumption DEF IsSent, IndInv, OrdersInv, TypeOfOrders
  <2> QED
    BY <2>1 DEF PlacesInv, SentIsReal
<1>2. /\ order'[i].volume = volume /\ order'[i].filled = 0
      /\ \A j \in Ids \ {i} : order'[j] = order[j]
      /\ UNCHANGED <<pending, scheduled, closed>>
  BY DEF IsSent
<1>3. \A j \in Ids : closed'[j] = closed[j] /\ (Live(j)' <=> Live(j))
  BY <1>2 DEF Live, Members
<1>4. \A j \in Ids : StateOf(j)' = StateOf(j)
  BY <1>3, StateIsSame
<1>5. \A j \in Ids : order'[j].filled = order[j].filled
  BY <1>1, <1>2
<1>6. Life' = Life
  BY <1>4, <1>5 DEF Life
<1>7. Volumes[i] = 0 /\ Volumes' = [Volumes EXCEPT ![i] = volume]
  BY <1>1, <1>2 DEF Volumes
<1> QED
  BY <1>6, <1>7 DEF Lives!Send, Volumes, Life

LEMMA RestIsAccept ==
    ASSUME IndInv, PlacesInv, NEW i \in Ids, NEW s \in Strategies, StartsToRest(s, i)
    PROVE  Lives!Accept(i)
<1>1. /\ i <= sent /\ closed[i] = <<>> /\ ~Live(i)
      /\ UNCHANGED <<order, closed>> /\ Live(i)'
      /\ \A j \in Ids \ {i} : Live(j)' <=> Live(j)
  <2>1. \A j \in Ids : Live(j)' <=> \E t \in Strategies : j \in Rest(t)'
    BY DEF Live, Rest, Members
  <2> QED
    BY <2>1, LiveIsResting DEF StartsToRest
<1>2. StateOf(i) = "new" /\ StateOf(i)' = "Accepted"
  BY <1>1 DEF StateOf
<1>3. \A j \in Ids \ {i} : StateOf(j)' = StateOf(j)
  BY <1>1, StateIsSame
<1>4. order[i].volume > 0
  BY <1>1 DEF PlacesInv, SentIsReal
<1>5. Life' = [Life EXCEPT ![i] = [state |-> "Accepted", filled |-> order[i].filled]]
  BY <1>1, <1>2, <1>3, LifeOfOne
<1>6. Life' = [Life EXCEPT ![i].state = "Accepted"]
  BY <1>5 DEF Life
<1>7. Volumes' = Volumes /\ Volumes[i] > 0 /\ Life[i].state = "new"
  BY <1>1, <1>2, <1>4 DEF Volumes, Life
<1> QED
  BY <1>6, <1>7 DEF Lives!Accept, Volumes, Life

LEMMA PartialIsTrade ==
    ASSUME IndInv, PlacesInv, NEW i \in Ids, NEW s \in Strategies, NEW volume \in 1..MaxVolume,
           TradesPartly(s, i, volume)
    PROVE  volume \in 1..order[i].volume /\ Lives!Trade(i, volume)
<1>1. /\ i \in Rest(s) /\ Trades(i, volume) /\ order[i].filled + volume < order[i].volume
      /\ UNCHANGED <<pending, scheduled, closed>>
  BY DEF TradesPartly
<1>2. closed[i] = <<>> /\ order[i] \in AnyOrder /\ Live(i)
  BY <1>1, RestingIsUnclosed, LiveIsResting
<1>3. \A j \in Ids : closed'[j] = closed[j] /\ (Live(j)' <=> Live(j))
  BY <1>1 DEF Live, Members
<1>4. \A j \in Ids : StateOf(j)' = StateOf(j)
  BY <1>3, StateIsSame
<1>5. StateOf(i) = "Accepted"
  BY <1>2, UnclosedState
<1>6. Life' = [Life EXCEPT ![i] = [state |-> "Accepted", filled |-> order[i].filled + volume]]
  BY <1>1, <1>4, <1>5, LifeOfOne DEF Trades
<1>7. /\ volume \in Nat /\ order[i].filled \in Nat /\ order[i].volume \in Nat
      /\ order[i].filled + volume # order[i].volume /\ order[i].filled + volume <= order[i].volume
      /\ volume \in 1..order[i].volume
  BY <1>1, <1>2, BoundsAssumption DEF AnyOrder
<1>8. Volumes' = Volumes
  BY <1>1 DEF Volumes, Trades
<1>9. /\ Volumes[i] = order[i].volume /\ Life[i].state = "Accepted" /\ Life[i].filled = order[i].filled
  BY <1>5 DEF Volumes, Life
<1>10. Life' = [Life EXCEPT ![i] =
                   [state  |-> IF Life[i].filled + volume = Volumes[i] THEN "Filled" ELSE "Accepted",
                    filled |-> Life[i].filled + volume]]
  BY <1>6, <1>7, <1>9
<1>11. Life[i].state \in {"new", "Accepted"} /\ Life[i].filled + volume <= Volumes[i]
  BY <1>7, <1>9
<1> QED
  BY <1>7, <1>8, <1>10, <1>11 DEF Lives!Trade, Volumes, Life

\* What the two kinds of end have in common.
LEMMA OverMoves ==
    ASSUME IndInv, PlacesInv, NEW i \in Ids, NEW status \in Status, NEW volume, IsOver(i, status, volume)
    PROVE  /\ order[i] \in AnyOrder /\ order[i].volume > 0
           /\ StateOf(i) \in {"new", "Accepted"}
           /\ Volumes' = Volumes
           /\ Life' = [Life EXCEPT ![i] = [state |-> status, filled |-> order[i].filled + volume]]
<1>1. /\ i <= sent /\ closed[i] = <<>> /\ Trades(i, volume)
      /\ closed' = [closed EXCEPT ![i] = <<status>>]
      /\ \A t \in Strategies : Rest(t)' = Rest(t) \ {i}
      /\ closed \in [Ids -> Seq(Status)]
  BY DEF IsOver, PlacesInv, ClosedIsOver
<1>2. \A j \in Ids \ {i} : Live(j)' <=> Live(j)
  <2>1. \A j \in Ids : Live(j)' <=> \E t \in Strategies : j \in Rest(t)'
    BY DEF Live, Rest, Members
  <2> QED
    BY <1>1, <2>1, LiveIsResting
<1>3. closed'[i] = <<status>> /\ \A j \in Ids \ {i} : closed'[j] = closed[j]
  BY <1>1
<1>4. \A j \in Ids \ {i} : StateOf(j)' = StateOf(j)
  BY <1>2, <1>3, StateIsSame
<1>5. StateOf(i)' = status
  <2>1. <<status>> # <<>> /\ Len(<<status>>) = 1 /\ <<status>>[1] = status
    OBVIOUS
  <2>2. closed'[i] # <<>> /\ closed'[i][Len(closed'[i])] = status
    BY <1>3, <2>1
  <2>3. ~Live(i)'
    BY <1>1 DEF Live, Rest, Members
  <2> QED
    BY <2>2, <2>3 DEF StateOf
<1>6. Life' = [Life EXCEPT ![i] = [state |-> status, filled |-> order[i].filled + volume]]
  BY <1>1, <1>4, <1>5, LifeOfOne DEF Trades
<1>7. Volumes' = Volumes
  BY <1>1 DEF Volumes, Trades
<1>8. order[i] \in AnyOrder /\ order[i].volume > 0
  BY <1>1 DEF IndInv, OrdersInv, TypeOfOrders, PlacesInv, SentIsReal
<1> QED
  BY <1>1, <1>6, <1>7, <1>8, UnclosedState

LEMMA OverIsEnd ==
    ASSUME IndInv, PlacesInv, NEW i \in Ids, NEW status \in {"Cancelled", "Rejected"}, IsOver(i, status, 0)
    PROVE  Lives!End(i, status)
<1>1. status \in Status
  BY DEF Status
<1>2. /\ order[i] \in AnyOrder /\ order[i].volume > 0
      /\ StateOf(i) \in {"new", "Accepted"}
      /\ Volumes' = Volumes
      /\ Life' = [Life EXCEPT ![i] = [state |-> status, filled |-> order[i].filled + 0]]
  BY <1>1, OverMoves
<1>3. order[i].filled + 0 = order[i].filled
  BY <1>2 DEF AnyOrder
<1>4. Life' = [Life EXCEPT ![i].state = status]
  BY <1>2, <1>3 DEF Life
<1>5. Volumes[i] > 0 /\ Life[i].state \in {"new", "Accepted"}
  BY <1>2 DEF Volumes, Life
<1> QED
  BY <1>2, <1>4, <1>5 DEF Lives!End, Volumes, Life

\* An order filled to its end trades all that remained.
LEMMA OverIsTrade ==
    ASSUME IndInv, PlacesInv, NEW i \in Ids, IsOver(i, "Filled", Remaining(i)), Remaining(i) > 0
    PROVE  \E volume \in 1..order[i].volume : Lives!Trade(i, volume)
<1>1. "Filled" \in Status
  BY DEF Status
<1>2. /\ order[i] \in AnyOrder /\ order[i].volume > 0
      /\ StateOf(i) \in {"new", "Accepted"}
      /\ Volumes' = Volumes
      /\ Life' = [Life EXCEPT ![i] = [state |-> "Filled", filled |-> order[i].filled + Remaining(i)]]
  BY <1>1, OverMoves
<1>3. PICK volume : volume = Remaining(i)
  OBVIOUS
<1>4. /\ order[i].filled + volume = order[i].volume
      /\ volume \in 1..order[i].volume /\ order[i].volume \in Nat
  BY <1>2, <1>3 DEF AnyOrder, Remaining
<1>5. /\ Volumes[i] = order[i].volume /\ Life[i].filled = order[i].filled
      /\ Life[i].state \in {"new", "Accepted"}
  BY <1>2 DEF Volumes, Life
<1>6. Life' = [Life EXCEPT ![i] =
                  [state  |-> IF Life[i].filled + volume = Volumes[i] THEN "Filled" ELSE "Accepted",
                   filled |-> Life[i].filled + volume]]
  BY <1>2, <1>3, <1>4, <1>5
<1>7. Life[i].filled + volume <= Volumes[i]
  BY <1>4, <1>5
<1>8. Lives!Trade(i, volume)
  BY <1>2, <1>5, <1>6, <1>7 DEF Lives!Trade, Volumes, Life
<1> QED
  BY <1>4, <1>8

-----------------------------------------------------------------------------
(* The results about places, events and lives.                             *)

LEMMA StepKeepsPlaces ==
    ASSUME IndInv, PlacesInv, [Next]_vars
    PROVE  PlacesInv'
<1>1. \A status \in {"Cancelled", "Rejected", "Filled"} : status \in Status
  BY DEF Status
<1> QED
  BY <1>1, StepMovesOrders, StaysKeeps, SentKeeps, RestKeeps, PartialKeeps, OverKeeps

(* Where each order is and what the loop still has to look at: a resting    *)
(* order left the queue, is its strategy's, and is there once; outside the *)
(* queue's rounds the flag knows of it.                                    *)
THEOREM OrdersAreTracked == Spec => [](IndInv /\ PlacesInv /\ LoopInv)
<1>1. Init => IndInv /\ PlacesInv /\ LoopInv
  BY Initial, PlacesStart, LoopStarts
<1>2. IndInv /\ PlacesInv /\ LoopInv /\ [Next]_vars => IndInv' /\ PlacesInv' /\ LoopInv'
  BY StepKeeps, StepKeepsPlaces, StepKeepsLoop
<1> QED
  BY <1>1, <1>2, PTL DEF Spec

LEMMA PlacesAreOne == ASSUME IndInv, PlacesInv PROVE OrdersEndOnce
<1> SUFFICES ASSUME NEW i \in 1..sent
             PROVE  (\E place \in Places(i) : Places(i) = {place}) /\ Len(closed[i]) <= 1
  BY DEF OrdersEndOnce
<1>1. i \in Ids /\ i <= sent
  BY BoundsAssumption DEF IndInv, OrdersInv, TypeOfOrders, Ids
<1>2. closed[i] \in Seq(Status) /\ Len(<<>>) = 0
  BY <1>1 DEF PlacesInv, ClosedIsOver
<1>3. Len(closed[i]) <= 1
  <2>1. CASE closed[i] = <<>>
    BY <1>2, <2>1
  <2>2. CASE closed[i] # <<>>
    <3>1. Len(closed[i]) = 1
      BY <1>1, <2>2 DEF PlacesInv, ClosedIsOver, Gone
    <3> QED
      BY <3>1
  <2> QED
    BY <2>1, <2>2
<1> DEFINE queued == i \in Members(orderQueue)
           waits == \E s \in Strategies : i \in scheduled[s]
           rests == \E s \in Strategies : i \in Members(pending[s])
           ended == closed[i] # <<>>
<1>4. queued \/ waits \/ rests \/ ended
  BY <1>1 DEF PlacesInv, SentIsSomewhere, Rest
<1>5. ~(queued /\ waits) /\ ~(queued /\ rests)
  <2>1. \A s \in Strategies : \A j \in Rest(s) : j \notin Members(orderQueue)
    BY DEF IndInv, OrdersInv, TypeOfOrders, RestingLeftQueue, Members
  <2> QED
    BY <2>1 DEF Rest
<1>6. ~(ended /\ queued) /\ ~(ended /\ waits) /\ ~(ended /\ rests)
  BY <1>1 DEF PlacesInv, ClosedIsOver, Gone, Rest
<1>7. ~(waits /\ rests)
  <2> SUFFICES ASSUME NEW s \in Strategies, NEW t \in Strategies,
                      i \in scheduled[s], i \in Members(pending[t])
               PROVE  FALSE
    OBVIOUS
  <2>1. s = order[i].strategy /\ t = order[i].strategy
    BY DEF PlacesInv, RestIsOwn, Rest
  <2> QED
    BY <2>1 DEF PlacesInv, RestsOnce
<1>8. Places(i) = (IF queued THEN {"queued"} ELSE {}) \union (IF waits THEN {"scheduled"} ELSE {})
                  \union (IF rests THEN {"resting"} ELSE {}) \union (IF ended THEN {"closed"} ELSE {})
  BY DEF Places
<1> HIDE DEF queued, waits, rests, ended
<1> QED
  BY <1>3, <1>4, <1>5, <1>6, <1>7, <1>8

(* Nothing process_tick, a submission or a cancel does loses an order, shows*)
(* one that is over or with a wrong volume, or hides a resting one from    *)
(* any_pending_orders.  Cancels may be made anywhere, during a dispatch too.*)
THEOREM NothingIsLost == Spec => []NoOrderIsLost
<1>1. IndInv /\ PlacesInv /\ LoopInv => NoOrderIsLost
  <2> SUFFICES ASSUME IndInv, PlacesInv, LoopInv PROVE NoOrderIsLost
    OBVIOUS
  <2>1. PendingFlagIsFresh
    <3> SUFFICES ASSUME At("activate"), NEW i \in Ids, Live(i) PROVE anyPendingOrders
      BY DEF PendingFlagIsFresh
    <3>1. \E s \in Strategies : i \in Rest(s)
      BY LiveIsResting
    <3>2. anyPendingOrders = TRUE
      BY <3>1 DEF LoopInv, FlagIsDue, At
    <3> QED
      BY <3>2
  <2> QED
    BY <2>1, PlacesAreOne DEF NoOrderIsLost, PlacesInv
<1> QED
  BY <1>1, OrdersAreTracked, PTL

(* If no strategy cancels from an order update, each end reaches the        *)
(* strategy by the end of the tick or waits for the next dispatch: the loop*)
(* of dispatch_backtest_events goes over the whole vector it clears.       *)
THEOREM EndsAreDelivered == ~CancelsFromUpdates => (Spec => []EndIsDelivered)
<1> SUFFICES ASSUME ~CancelsFromUpdates PROVE Spec => []EndIsDelivered
  OBVIOUS
<1>1. Init => EndsAreDue
  BY DEF Init, EndsAreDue
<1>2. IndInv /\ PlacesInv /\ LoopInv /\ EndsAreDue /\ [Next]_vars => EndsAreDue'
  <2> SUFFICES ASSUME IndInv, PlacesInv, LoopInv, EndsAreDue, [Next]_vars PROVE EndsAreDue'
    OBVIOUS
  <2>1. CASE Callbacks
    BY <2>1, CallbacksKeepDue
  <2>2. CASE Service
    BY <2>2, ServiceKeepsDue DEF Service
  <2>3. CASE Submit
    BY <2>3, SubmitKeepsDue DEF Submit
  <2>4. CASE ProcessTick
    BY <2>4, WalkKeepsDue, DispatchEventKeepsDue, EventsDispatchedKeepsDue DEF ProcessTick
  <2>5. CASE UNCHANGED vars
    BY <2>5 DEF vars, EndsAreDue, IsDue, FirstUnread, At
  <2> QED
    BY <2>1, <2>2, <2>3, <2>4, <2>5 DEF Next
<1>3. EndsAreDue => EndIsDelivered
  BY DEF EndsAreDue, IsDue, EndIsDelivered
<1> QED
  BY <1>1, <1>2, <1>3, OrdersAreTracked, PTL DEF Spec

(* Every step of the engine is a step of OrderLife or leaves it alone: what *)
(* is sent trades its volume or less, ends once, as Filled exactly when all*)
(* was traded, and is never refused or cancelled after its end.            *)
THEOREM LifeIsKept == Spec => ImplementsOrderLife
<1>1. Init => Lives!Init
  <2> SUFFICES ASSUME Init PROVE Lives!Init
    OBVIOUS
  <2>1. \A i \in Ids : order[i].volume = 0 /\ order[i].filled = 0
    BY DEF Init, NoOrder
  <2>2. \A i \in Ids : closed[i] = <<>> /\ ~Live(i)
    BY DEF Init, Live, Members
  <2>3. \A i \in Ids : StateOf(i) = "new"
    BY <2>2, UnclosedState
  <2> QED
    BY <2>1, <2>3 DEF Lives!Init
<1>2. IndInv /\ PlacesInv /\ [Next]_vars => [Lives!Next]_<<Volumes, Life>>
  <2> SUFFICES ASSUME IndInv, PlacesInv, [Next]_vars
               PROVE  Lives!Next \/ (Volumes' = Volumes /\ Life' = Life)
    OBVIOUS
  <2>1. CASE Stays
    BY <2>1, StayStutters
  <2>2. CASE \E i \in Ids, s \in Strategies, volume \in 1..MaxVolume : IsSent(s, i, volume)
    BY <2>2, SentIsSend DEF Lives!Next
  <2>3. CASE \E i \in Ids, s \in Strategies : StartsToRest(s, i)
    BY <2>3, RestIsAccept DEF Lives!Next
  <2>4. CASE \E i \in Ids, s \in Strategies, volume \in 1..MaxVolume : TradesPartly(s, i, volume)
    <3>1. PICK i \in Ids, s \in Strategies, volume \in 1..MaxVolume : TradesPartly(s, i, volume)
      BY <2>4
    <3>2. volume \in 1..order[i].volume /\ Lives!Trade(i, volume)
      BY <3>1, PartialIsTrade
    <3> QED
      BY <3>2 DEF Lives!Next
  <2>5. CASE \E i \in Ids, status \in {"Cancelled", "Rejected"} : IsOver(i, status, 0)
    BY <2>5, OverIsEnd DEF Lives!Next
  <2>6. CASE \E i \in Ids : IsOver(i, "Filled", Remaining(i)) /\ Remaining(i) > 0
    <3>1. PICK i \in Ids : IsOver(i, "Filled", Remaining(i)) /\ Remaining(i) > 0
      BY <2>6
    <3>2. PICK volume \in 1..order[i].volume : Lives!Trade(i, volume)
      BY <3>1, OverIsTrade
    <3> QED
      BY <3>2 DEF Lives!Next
  <2> QED
    BY <2>1, <2>2, <2>3, <2>4, <2>5, <2>6, StepMovesOrders
<1> QED
  BY <1>1, <1>2, OrdersAreTracked, PTL DEF Spec, ImplementsOrderLife, Lives!Spec, Volumes, Life
=============================================================================
