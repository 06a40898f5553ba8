--------------------------- MODULE BacktestEngine ---------------------------
(***************************************************************************)
(* The replay loop of run_backtest: one tick after another is put through  *)
(* process_tick, which rolls positions when the trading day changes,       *)
(* activates scheduled orders, matches resting ones, calls the strategies  *)
(* with the tick and submits what they queued, dispatching order events in *)
(* between.  All on one thread: what interleaves are the strategies'       *)
(* callbacks, which may queue or cancel orders wherever they are called.   *)
(* One account and one instrument; a position belongs to a strategy.  When *)
(* an order matches, and for how much, is left open (prices, queue estimate*)
(* and activation times decide it in the code).                            *)
(***************************************************************************)
EXTENDS PositionBuckets, Sequences

CONSTANTS
    Strategies,
    Requests,            \* the requests strategies send
    Policies,            \* subset of Policy
    MaxOrders,           \* bound: orders sent in the replay
    MaxVolume,           \* bound: lots of one order
    CancelsFromUpdates   \* do strategies cancel while order events are dispatched

\* A native order, one filled by force at its own price, one with an activation time.
Policy == {"native", "forced", "timed"}

ASSUME RequestsAssumption == Requests \subseteq Request /\ Requests # {}
ASSUME PoliciesAssumption == Policies \subseteq Policy
ASSUME BoundsAssumption == MaxOrders \in Nat /\ MaxVolume \in Nat
ASSUME CancelsAssumption == CancelsFromUpdates \in BOOLEAN

Ids == 1..MaxOrders
NoStrategy == 0
Status == {"Submitted", "Accepted", "PartiallyFilled", "Filled", "Cancelled", "Rejected"}
IsTerminalStatus(status) == status \in {"Filled", "Cancelled", "Rejected"}

VARIABLES
    main,              \* where process_tick stands
    order,             \* what was sent, and filled_volume of the engine
    sent,              \* how many orders were sent
    orderQueue,        \* order_queue, ids in the order sent
    scheduled,         \* scheduled_orders of each attachment, in the order of their ids
    pending,           \* pending_orders of each attachment
    opened,            \* opened_orders_by_id: id and filled volume shown
    closed,            \* for each id its entries in closed_orders
    position,          \* positions of each attachment, one instrument
    events,            \* events not cleared yet
    anyPendingOrders,
    slot,              \* OrderSlotState the strategy keeps for each order
    dealt              \* lots traded on each leg, closes subtracted

engine == <<order, sent, orderQueue, scheduled, pending, opened, closed, position, dealt>>
vars == <<main, order, sent, orderQueue, scheduled, pending, opened, closed, position,
          events, anyPendingOrders, slot, dealt>>

NoOrder == [strategy |-> NoStrategy, request |-> CHOOSE r \in Requests : TRUE,
            volume |-> 0, policy |-> "native", filled |-> 0]
NoSlot == [active |-> FALSE, filled |-> 0]

Init ==
    /\ main = [pc |-> "start", callee |-> Strategies, early |-> FALSE, round |-> "early",
               next |-> 1, end |-> 0, todo |-> {}]
    /\ order = [i \in Ids |-> NoOrder] /\ sent = 0
    /\ orderQueue = <<>> /\ events = <<>>
    /\ scheduled = [s \in Strategies |-> {}]
    /\ pending = [s \in Strategies |-> <<>>]
    /\ opened = {} /\ closed = [i \in Ids |-> <<>>]
    /\ position = [s \in Strategies |-> EmptyPosition]
    /\ dealt = [s \in Strategies |-> [l \in LegName |-> 0]]
    /\ anyPendingOrders = FALSE
    /\ slot = [i \in Ids |-> NoSlot]

At(pc) == main.pc = pc
MaxOf(a, b) == IF a >= b THEN a ELSE b
Members(seq) == {seq[k] : k \in DOMAIN seq}
PositionOf(seq, i) == CHOOSE k \in DOMAIN seq : seq[k] = i
Without(seq, i) ==
    IF i \in Members(seq)
    THEN [k \in 1..(Len(seq) - 1) |-> IF k < PositionOf(seq, i) THEN seq[k] ELSE seq[k + 1]]
    ELSE seq
Remaining(i) == order[i].volume - order[i].filled

Event(i, status, filled) == [id |-> i, status |-> status, filled |-> filled]
Calling(pc, callee) ==
    main' = [pc |-> pc, callee |-> callee, early |-> main.early /\ pc # "idle", round |-> "early",
             next |-> 1, end |-> 0, todo |-> {}]
GoTo(pc) == Calling(pc, {})
CallBack(pc) == Calling(pc, Strategies)
DispatchAllButLast(round, list) ==
    main' = [main EXCEPT !.pc = "dispatch", !.callee = {}, !.round = round,
                         !.next = 1, !.end = Len(list) - 1, !.todo = {}]
\* The range-for takes the end of the vector once, before the first event.
Dispatch(round, list) ==
    main' = [main EXCEPT !.pc = "dispatch", !.callee = {}, !.round = round,
                         !.next = 1, !.end = Len(list), !.todo = {}]

-----------------------------------------------------------------------------
(* What a strategy may do in a callback (StrategyContextImpl).             *)

\* Client ids are unique within an account, and one account has one queue: an
\* order has the same number in the strategy and in the engine.
SendOrder(s, r, volume, policy) ==
    /\ s \in main.callee /\ sent < MaxOrders
    /\ LET i == sent + 1
       IN  /\ order' = [order EXCEPT ![i] = [strategy |-> s, request |-> r, volume |-> volume,
                                             policy |-> policy, filled |-> 0]]
           /\ sent' = i
           /\ orderQueue' = Append(orderQueue, i)
           /\ slot' = [slot EXCEPT ![i].active = TRUE]
    /\ UNCHANGED <<main, scheduled, pending, opened, closed, position, events, anyPendingOrders, dealt>>

RecordClosedOrder(i, status) == closed' = [closed EXCEPT ![i] = Append(@, status)]
KeepOpened(i) == UNCHANGED opened
EraseOpened(i) == opened' = {o \in opened : o.id # i}

ForgetPendingOnly(s, i) ==
    /\ pending' = [pending EXCEPT ![s] = Without(@, i)]
    /\ UNCHANGED scheduled
ForgetPending(s, i) ==
    /\ pending' = [pending EXCEPT ![s] = Without(@, i)]
    /\ scheduled' = [scheduled EXCEPT ![s] = @ \ {i}]

\* The event joins the vector that may just be iterated: the loop does not reach
\* it, and if the vector had to grow the loop goes on over moved-from strings,
\* which match no strategy.
CancelOrder(s, i) ==
    /\ s \in main.callee
    /\ At("dispatch") => CancelsFromUpdates
    /\ i \in scheduled[s] \union Members(pending[s])
    /\ events' = Append(events, Event(i, "Cancelled", 0))
    /\ EraseOpened(i) /\ RecordClosedOrder(i, "Cancelled") /\ ForgetPending(s, i)
    /\ \/ UNCHANGED main
       \/ At("dispatch") /\ main' = [main EXCEPT !.end = main.next - 1]
    /\ UNCHANGED <<order, sent, orderQueue, position, anyPendingOrders, slot, dealt>>

-----------------------------------------------------------------------------
(* process_tick.                                                           *)

StartDone ==
    /\ At("start") /\ GoTo("idle")
    /\ UNCHANGED <<engine, events, anyPendingOrders, slot>>

\* The next tick is of the same trading day ...
SameDayTick ==
    /\ At("idle")
    /\ main' = [main EXCEPT !.pc = "activate", !.early = FALSE]
    /\ UNCHANGED <<engine, events, anyPendingOrders, slot>>

\* ... or of a new one: lots grow older, and the strategies are told.
NewDayTick ==
    /\ At("idle")
    /\ position' = [s \in Strategies |-> RollPositionToNextTradingDay(position[s])]
    /\ main' = [main EXCEPT !.pc = "day", !.early = TRUE, !.callee = Strategies]
    /\ UNCHANGED <<order, sent, orderQueue, scheduled, pending, opened, closed, dealt,
                   events, anyPendingOrders, slot>>

\* The first tick of a day reaches the strategies before resting orders match.
DayDispatched ==
    /\ At("day") /\ CallBack("tick")
    /\ UNCHANGED <<engine, events, anyPendingOrders, slot>>

TickDispatched ==
    /\ At("tick")
    /\ IF ~main.early THEN GoTo("queue")
       ELSE IF events # <<>> THEN Dispatch("early", events) ELSE GoTo("activate")
    /\ UNCHANGED <<engine, events, anyPendingOrders, slot>>

\* A scheduled order whose time has come joins the resting ones.
ActivateScheduledOrder(s, i) ==
    /\ At("activate") /\ anyPendingOrders
    /\ i \in scheduled[s] /\ i >= main.next
    /\ scheduled' = [scheduled EXCEPT ![s] = @ \ {i}]
    /\ pending' = [pending EXCEPT ![s] = Append(@, i)]
    /\ main' = [main EXCEPT !.next = i + 1]
    /\ UNCHANGED <<order, sent, orderQueue, opened, closed, position, dealt,
                   events, anyPendingOrders, slot>>

ActivationDone ==
    /\ At("activate")
    /\ main' = [main EXCEPT !.pc = "service", !.next = 1,
                    !.todo = IF anyPendingOrders THEN UNION {Members(pending[s]) : s \in Strategies}
                                                 ELSE {}]
    /\ UNCHANGED <<engine, events, anyPendingOrders, slot>>

\* The attachment's orders are looked at in the order of the vector.
NextToService(s, i) ==
    /\ At("service") /\ i \in main.todo
    /\ \E k \in DOMAIN pending[s] :
          /\ pending[s][k] = i
          /\ \A j \in 1..(k - 1) : pending[s][j] \notin main.todo
Serviced(i) == main' = [main EXCEPT !.todo = main.todo \ {i}]

NotMatched(s, i) ==
    /\ NextToService(s, i)
    /\ Serviced(i)
    /\ UNCHANGED <<engine, events, anyPendingOrders, slot>>

MatchesRequested(i, volume) ==
    /\ volume \in 1..order[i].volume
    /\ order[i].policy = "timed" => volume = Remaining(i)
\* The synthetic matcher fills all that remains or nothing.
Matches(i, volume) ==
    /\ volume \in 1..Remaining(i)
    /\ order[i].policy = "timed" => volume = Remaining(i)

StillValidUnchecked(s, i) == TRUE
StillValid(s, i) == CloseRequestIsValid(position[s], order[i].request, Remaining(i))

MatchRejected(s, i) ==
    /\ NextToService(s, i) /\ Remaining(i) > 0
    /\ ~StillValid(s, i)
    /\ events' = Append(events, Event(i, "Rejected", 0))
    /\ EraseOpened(i) /\ RecordClosedOrder(i, "Rejected") /\ ForgetPending(s, i)
    /\ Serviced(i)
    /\ UNCHANGED <<order, sent, orderQueue, position, dealt, anyPendingOrders, slot>>

Book(s, i, volume) ==
    LET r == order[i].request
    IN  /\ position' = [position EXCEPT ![s] = ApplyFill(position[s], r, volume)]
        /\ order' = [order EXCEPT ![i].filled = order[i].filled + volume]
        /\ dealt' = [dealt EXCEPT ![s] =
                        IF r.offset = "Open"
                        THEN [dealt[s] EXCEPT ![OpenedLeg(r)] = dealt[s][OpenedLeg(r)] + volume]
                        ELSE [dealt[s] EXCEPT ![ClosedLeg(r)] = dealt[s][ClosedLeg(r)] - volume]]

MatchFills(s, i, volume) ==
    /\ NextToService(s, i) /\ Matches(i, volume)
    /\ StillValid(s, i)
    /\ Book(s, i, volume)
    /\ IF volume = Remaining(i)
       THEN /\ events' = Append(events, Event(i, "Filled", volume))
            /\ EraseOpened(i) /\ RecordClosedOrder(i, "Filled") /\ ForgetPending(s, i)
       ELSE /\ events' = Append(events, Event(i, "PartiallyFilled", volume))
            /\ opened' = {o \in opened : o.id # i} \union {[id |-> i, filled |-> order[i].filled + volume]}
            /\ UNCHANGED <<closed, pending, scheduled>>
    /\ Serviced(i)
    /\ UNCHANGED <<sent, orderQueue, anyPendingOrders, slot>>

ServiceDone ==
    /\ At("service") /\ main.todo = {}
    /\ IF events # <<>> THEN Dispatch("serviced", events)
       ELSE IF main.early THEN GoTo("queue") ELSE CallBack("tick")
    /\ UNCHANGED <<engine, events, anyPendingOrders, slot>>

\* Events of cancels made in on_tick wait for the next dispatch.
NothingQueued ==
    /\ At("queue") /\ orderQueue = <<>>
    /\ GoTo("idle")
    /\ UNCHANGED <<engine, events, anyPendingOrders, slot>>

-----------------------------------------------------------------------------
(* submit_backtest_order, for each queued request.                         *)

\* What submitting i does in every case.
Submitting(s, i) ==
    /\ At("queue") /\ orderQueue # <<>> /\ i = Head(orderQueue)
    /\ s = order[i].strategy
    /\ orderQueue' = Tail(orderQueue)
    /\ UNCHANGED <<sent, anyPendingOrders, slot>>

Submitted(i, status, filled) ==
    LET list == events \o <<Event(i, "Submitted", 0), Event(i, status, filled)>>
    IN  /\ events' = list
        /\ IF Len(orderQueue) = 1 THEN Dispatch("submitted", list) ELSE UNCHANGED main

Acceptable(s, i) == CloseRequestIsValid(position[s], order[i].request, order[i].volume)

\* A forced fill without a usable price is refused as well.
SubmitRejected(s, i) ==
    /\ Submitting(s, i)
    /\ ~Acceptable(s, i) \/ order[i].policy = "forced"
    /\ Submitted(i, "Rejected", 0)
    /\ RecordClosedOrder(i, "Rejected")
    /\ UNCHANGED <<order, scheduled, pending, opened, position, dealt>>

SubmitFills(s, i) ==
    /\ Submitting(s, i) /\ Acceptable(s, i)
    /\ Book(s, i, order[i].volume)
    /\ Submitted(i, "Filled", order[i].volume)
    /\ RecordClosedOrder(i, "Filled")
    /\ UNCHANGED <<scheduled, pending, opened>>

Open(i) == opened' = {o \in opened : o.id # i} \union {[id |-> i, filled |-> 0]}

SubmitRests(s, i) ==
    /\ Submitting(s, i) /\ Acceptable(s, i) /\ order[i].policy # "forced"
    /\ pending' = [pending EXCEPT ![s] = Append(@, i)]
    /\ Open(i) /\ Submitted(i, "Accepted", 0)
    /\ UNCHANGED <<order, scheduled, closed, position, dealt>>

\* Its activation time is still to come.
SubmitScheduled(s, i) ==
    /\ Submitting(s, i) /\ Acceptable(s, i) /\ order[i].policy = "timed"
    /\ scheduled' = [scheduled EXCEPT ![s] = @ \union {i}]
    /\ Open(i) /\ Submitted(i, "Accepted", 0)
    /\ UNCHANGED <<order, pending, closed, position, dealt>>

-----------------------------------------------------------------------------
(* Dispatching the events.                                                 *)

\* record_order_update, as the docs tell strategies to use it: what it keeps is
\* the sum of the filled_volume_deltas.  The slot of an order that is over is cleared.
SlotUpdate(c, e) ==
    IF c.active THEN [active |-> ~IsTerminalStatus(e.status), filled |-> MaxOf(c.filled, e.filled)]
                ELSE c

DispatchEvent ==
    /\ At("dispatch") /\ main.next <= main.end
    /\ LET e == events[main.next]
       IN  /\ slot' = [slot EXCEPT ![e.id] = SlotUpdate(@, e)]
           /\ main' = [main EXCEPT !.next = main.next + 1, !.callee = {order[e.id].strategy}]
    /\ UNCHANGED <<engine, events, anyPendingOrders>>

RestingOrdersWait == \E s \in Strategies : pending[s] # <<>>
OrdersWait == \E s \in Strategies : pending[s] # <<>> \/ scheduled[s] # {}

EventsDispatched ==
    /\ At("dispatch") /\ main.next > main.end
    /\ events' = <<>>
    /\ anyPendingOrders' = OrdersWait
    /\ CASE main.round = "early" -> GoTo("activate")
         [] main.round = "submitted" -> GoTo("idle")
         [] OTHER -> IF main.early THEN GoTo("queue") ELSE CallBack("tick")
    /\ UNCHANGED <<engine, slot>>

-----------------------------------------------------------------------------
Callbacks == \E s \in Strategies :
                \/ \E r \in Requests, volume \in 1..MaxVolume, p \in Policies : SendOrder(s, r, volume, p)
                \/ \E i \in Ids : CancelOrder(s, i)

Service == \E s \in Strategies, i \in Ids :
                \/ ActivateScheduledOrder(s, i)
                \/ NotMatched(s, i) \/ MatchRejected(s, i)
                \/ \E volume \in 1..MaxVolume : MatchFills(s, i, volume)

Submit == \E s \in Strategies, i \in Ids :
                SubmitRejected(s, i) \/ SubmitFills(s, i) \/ SubmitRests(s, i) \/ SubmitScheduled(s, i)

ProcessTick == \/ StartDone \/ SameDayTick \/ NewDayTick \/ DayDispatched \/ TickDispatched
               \/ ActivationDone \/ ServiceDone \/ NothingQueued
               \/ DispatchEvent \/ EventsDispatched

Next == Callbacks \/ Service \/ Submit \/ ProcessTick

Spec == Init /\ [][Next]_vars

-----------------------------------------------------------------------------
Order == [strategy : Strategies \union {NoStrategy}, request : Requests,
          volume : 0..MaxVolume, policy : Policies \union {"native"}, filled : 0..MaxVolume]
Main == [pc : {"start", "idle", "day", "activate", "service", "tick", "queue", "dispatch"},
         callee : SUBSET Strategies, early : BOOLEAN,
         round : {"early", "serviced", "submitted"}, next : Nat, end : Nat, todo : SUBSET Ids]

\* Shapes; no bucket is negative and no order is filled beyond the bound.
TypeOK ==
    /\ main \in Main /\ order \in [Ids -> Order] /\ sent \in 0..MaxOrders
    /\ orderQueue \in Seq(Ids)
    /\ scheduled \in [Strategies -> SUBSET Ids] /\ pending \in [Strategies -> Seq(Ids)]
    /\ opened \subseteq [id : Ids, filled : 0..MaxVolume]
    /\ closed \in [Ids -> Seq(Status)]
    /\ position \in [Strategies -> PositionState]
    /\ events \in Seq([id : Ids, status : Status, filled : 0..MaxVolume])
    /\ anyPendingOrders \in BOOLEAN
    /\ slot \in [Ids -> [active : BOOLEAN, filled : 0..MaxVolume]]
    /\ dealt \in [Strategies -> [LegName -> Int]]

Live(i) == \E s \in Strategies : i \in Members(pending[s]) \union scheduled[s]

(* An order's lots are all booked, no close is partly dropped: lots promised *)
(* to a resting close may be gone when it matches, taken by another close  *)
(* or aged by a day roll, so it is checked once more before the fill.      *)
BookMatchesFills ==
    \A s \in Strategies, l \in LegName : TotalQuantity(position[s][l]) = dealt[s][l]

(* Each order sent is in one place: queued, scheduled, resting or closed, and*)
(* it is closed once.                                                      *)
Places(i) ==
    (IF i \in Members(orderQueue) THEN {"queued"} ELSE {})
    \union (IF \E s \in Strategies : i \in scheduled[s] THEN {"scheduled"} ELSE {})
    \union (IF \E s \in Strategies : i \in Members(pending[s]) THEN {"resting"} ELSE {})
    \union (IF closed[i] # <<>> THEN {"closed"} ELSE {})
OrdersEndOnce ==
    \A i \in 1..sent : /\ \E place \in Places(i) : Places(i) = {place}
                      /\ Len(closed[i]) <= 1

(* open_orders() shows the orders that can still trade or be cancelled, with*)
(* the volume they have traded, and no other.                              *)
OpenOrdersAreLive == opened = {[id |-> i, filled |-> order[i].filled] : i \in {j \in Ids : Live(j)}}

(* any_pending_orders spares the loop a look at idle attachments; when the  *)
(* loop reads it, it has not missed a resting or scheduled order.          *)
PendingFlagIsFresh == At("activate") /\ (\E i \in Ids : Live(i)) => anyPendingOrders

(* An order moves through its places without being in two of them or in     *)
(* none, and neither the strategy's view nor the flag loses sight of it.    *)
NoOrderIsLost == OrdersEndOnce /\ OpenOrdersAreLive /\ PendingFlagIsFresh

(* Between ticks the strategy of each closed order was told so, unless the  *)
(* event is still waiting to be dispatched.                                *)
EndIsDelivered ==
    At("idle") => \A i \in Ids :
        (closed[i] # <<>> /\ slot[i].active) =>
            \E k \in DOMAIN events : events[k].id = i /\ IsTerminalStatus(events[k].status)

(* The engine keeps the life of an order that OrderLife promises.          *)
StateOf(i) == CASE closed[i] # <<>> -> closed[i][Len(closed[i])]
                [] Live(i)          -> "Accepted"
                [] OTHER            -> "new"
Lives == INSTANCE OrderLife
             WITH volume <- [i \in Ids |-> order[i].volume],
                  life <- [i \in Ids |-> [state |-> StateOf(i), filled |-> order[i].filled]]
ImplementsOrderLife == Lives!Spec
=============================================================================
