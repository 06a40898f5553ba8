---------------------------- MODULE CtpOrderFlow ----------------------------
(***************************************************************************)
(* The life of live orders within one trading session of one account: the  *)
(* main thread submits and cancels for the strategies and applies drained  *)
(* order events; the CTP callback thread turns broker messages into events;*)
(* the two share the maps and the event queue of CtpTraderGateway under its *)
(* mutex, so a step below is one critical section (or one request to the   *)
(* broker).  The broker is external: it acknowledges, trades, cancels or    *)
(* refuses and its messages arrive in order.  A position is a count of lots *)
(* (Position.tla models its buckets); all trades are on one instrument.    *)
(***************************************************************************)
EXTENDS Integers, Sequences, FiniteSets, Functions

CONSTANTS
    Strategies,      \* strategies bound to the account, one order-ref code each
    MaxOrders,       \* bound: order refs the session allocates
    MaxVolume,       \* bound: lots of one order
    MaxOutstanding,  \* [risk] max_outstanding_orders, 0 switches the check off
    InitialLots,     \* lots each attachment was hydrated with
    BrokerLots,      \* lots the account was hydrated with, their total
    OneExitAtATime   \* do strategies keep one exit order slot and close their own lots only

ASSUME MaxOrdersAssumption == MaxOrders \in Nat
ASSUME MaxVolumeAssumption == MaxVolume \in Nat
ASSUME InitialLotsAssumption == InitialLots \in [Strategies -> Nat] /\ BrokerLots \in Nat
ASSUME StrategiesAssumption == IsFiniteSet(Strategies)
ASSUME OneExitAssumption == OneExitAtATime \in BOOLEAN

Refs    == 1..MaxOrders
Clients == Strategies \X (1..MaxOrders)
NoRef   == 0
NoStrategy == 0
NoClient == <<>>     \* the event carries the order ref in place of a client id

Offsets  == {"Open", "Close"}
Status   == {"Submitted", "Accepted", "PartiallyFilled", "Filled", "Cancelled", "Rejected"}
IsTerminalButCancelled(s) == s \in {"Filled", "Rejected"}
IsTerminalStatus(s) == s \in {"Filled", "Cancelled", "Rejected"}
IsFillStatus(s)     == s \in {"PartiallyFilled", "Filled"}

VARIABLES
    \* the broker and the requests it was given
    order,           \* [Refs -> the request and what became of it]
    cancelAsked,     \* refs the broker was asked to cancel, immediate-or-cancel ones included
    available,       \* lots the broker still lets the account close
    feed,            \* messages on their way to the callback thread
    \* CtpTraderGateway
    orderRefSequence,
    orderToClientId, clientIdToOrderRef,
    requestedVolume, cumulativeTradeVolume,
    pendingEvents,
    spi,             \* the callback in progress
    \* the main thread
    main,            \* the submission in progress
    nextClientId,    \* StrategyContextImpl::next_client_order_id_
    batch,           \* drained events not applied yet
    \* LiveAccountState and LiveAttachmentTelemetry
    accountLots, attachmentLots,
    appliedByClient, appliedByRef,   \* applied_filled_volume_by_order, by kind of key
    opened,          \* opened_orders_by_id of all attachments
    closed           \* how often closed_orders names the ref

brokerVars  == <<order, cancelAsked, available, feed>>
gatewayMaps == <<orderToClientId, clientIdToOrderRef, requestedVolume, cumulativeTradeVolume>>
mainVars    == <<main, nextClientId, orderRefSequence>>
books       == <<accountLots, attachmentLots, appliedByClient, appliedByRef, opened, closed>>
vars == <<brokerVars, gatewayMaps, pendingEvents, spi, mainVars, batch, books>>

NoOrder == [strategy |-> NoStrategy, client |-> NoClient, offset |-> "Open",
            volume |-> 0, state |-> "free", traded |-> 0]
NoEvent == [ref |-> NoRef, client |-> NoClient, status |-> "Submitted", filled |-> 0]

NoCallback == [pc |-> "idle", event |-> NoEvent]

TotalLots(lots) == FoldFunction(+, 0, lots)

MaxOf(a, b) == IF a >= b THEN a ELSE b
MinOf(a, b) == IF a <= b THEN a ELSE b

Init ==
    /\ order = [r \in Refs |-> NoOrder]
    /\ cancelAsked = {} /\ feed = <<>>
    /\ orderRefSequence = 0
    /\ orderToClientId = [r \in Refs |-> NoClient]
    /\ clientIdToOrderRef = [c \in Clients |-> NoRef]
    /\ requestedVolume = [r \in Refs |-> 0]
    /\ cumulativeTradeVolume = [r \in Refs |-> 0]
    /\ pendingEvents = <<>> /\ batch = <<>>
    /\ spi = NoCallback
    /\ main = [pc |-> "idle", ref |-> NoRef]
    /\ nextClientId = [s \in Strategies |-> 0]
    /\ attachmentLots = InitialLots /\ accountLots = BrokerLots /\ available = BrokerLots
    /\ appliedByClient = [c \in Clients |-> 0]
    /\ appliedByRef = [r \in Refs |-> 0]
    /\ opened = {} /\ closed = [r \in Refs |-> 0]

-----------------------------------------------------------------------------
(* The gateway's maps and queue, shared by the two threads.                *)

PushEvent(e) == pendingEvents' = Append(pendingEvents, e)

EraseOrderKeepingVolume(r, c) ==
    /\ clientIdToOrderRef' = IF c = NoClient THEN clientIdToOrderRef
                             ELSE [clientIdToOrderRef EXCEPT ![c] = NoRef]
    /\ orderToClientId' = [orderToClientId EXCEPT ![r] = NoClient]
    /\ cumulativeTradeVolume' = [cumulativeTradeVolume EXCEPT ![r] = 0]
    /\ UNCHANGED requestedVolume

\* Every failure and terminal path erases the same seven maps; the four that
\* hold an exchange, an instrument, a price and a signal time are not modelled.
EraseOrder(r, c) ==
    /\ clientIdToOrderRef' = IF c = NoClient THEN clientIdToOrderRef
                             ELSE [clientIdToOrderRef EXCEPT ![c] = NoRef]
    /\ orderToClientId' = [orderToClientId EXCEPT ![r] = NoClient]
    /\ requestedVolume' = [requestedVolume EXCEPT ![r] = 0]
    /\ cumulativeTradeVolume' = [cumulativeTradeVolume EXCEPT ![r] = 0]

-----------------------------------------------------------------------------
(* The main thread submits.  Strategies are called back on ticks and while  *)
(* a batch of events is applied, so a submission may start whenever no     *)
(* other is in progress; it is not atomic with respect to the callbacks.    *)

\* A strategy with one exit slot closes only lots of its own, one order at a time.
ExitSlotFree(s, volume) ==
    /\ volume <= attachmentLots[s]
    /\ \A r \in Refs : (order[r].strategy = s /\ order[r].offset = "Close")
                         => order[r].state \in {"free", "failed"} \/ closed[r] > 0

\* evaluate_live_order_risk: counts what the books show now, not what is in flight.
RiskAllows(offset, volume) ==
    /\ MaxOutstanding > 0 => Cardinality(opened) < MaxOutstanding
    /\ offset = "Close" => volume <= accountLots

\* next_order_ref: the sequence ends at kOrderRefSequenceMax.
RefAvailableOffByOne == orderRefSequence <= MaxOrders
RefAvailable == orderRefSequence < MaxOrders

\* submit_order up to the request: allocate the ref, fill the maps.
SubmitOrder(s, offset, volume) ==
    LET r == orderRefSequence + 1
        c == <<s, nextClientId[s] + 1>>
    IN  /\ main.pc = "idle"
        /\ RefAvailable
        /\ (offset = "Close" /\ OneExitAtATime) => ExitSlotFree(s, volume)
        /\ RiskAllows(offset, volume)
        /\ nextClientId' = [nextClientId EXCEPT ![s] = @ + 1]
        /\ orderRefSequence' = r
        /\ order' = [order EXCEPT ![r] = [strategy |-> s, client |-> c, offset |-> offset,
                                          volume |-> volume, state |-> "new", traded |-> 0]]
        /\ orderToClientId' = [orderToClientId EXCEPT ![r] = c]
        /\ clientIdToOrderRef' = [clientIdToOrderRef EXCEPT ![c] = r]
        /\ requestedVolume' = [requestedVolume EXCEPT ![r] = volume]
        /\ cumulativeTradeVolume' = [cumulativeTradeVolume EXCEPT ![r] = 0]
        /\ main' = [pc |-> "insert", ref |-> r]
        /\ UNCHANGED <<cancelAsked, available, feed, pendingEvents, spi, batch, books>>

\* ReqOrderInsert returns 0: the order is on its way, immediate-or-cancel or not.
InsertSent(immediateOrCancel) ==
    /\ main.pc = "insert"
    /\ order' = [order EXCEPT ![main.ref].state = "sent"]
    /\ cancelAsked' = IF immediateOrCancel THEN cancelAsked \union {main.ref} ELSE cancelAsked
    /\ main' = [main EXCEPT !.pc = "push"]
    /\ UNCHANGED <<available, feed, gatewayMaps, pendingEvents, spi, nextClientId,
                   orderRefSequence, batch, books>>

\* ... or another code: nothing was sent, the maps are erased, the strategy is told.
InsertFails ==
    /\ main.pc = "insert"
    /\ order' = [order EXCEPT ![main.ref].state = "failed"]
    /\ main' = [main EXCEPT !.pc = "erase"]
    /\ UNCHANGED <<cancelAsked, available, feed, gatewayMaps, pendingEvents, spi, nextClientId,
                   orderRefSequence, batch, books>>

EraseFailedInsert ==
    /\ main.pc = "erase"
    /\ EraseOrder(main.ref, order[main.ref].client)
    /\ main' = [pc |-> "idle", ref |-> NoRef]
    /\ UNCHANGED <<brokerVars, pendingEvents, spi, nextClientId, orderRefSequence, batch, books>>

\* The Submitted event is queued after the request, by the submitting thread.
PushSubmitted ==
    /\ main.pc = "push"
    /\ PushEvent([ref |-> main.ref, client |-> order[main.ref].client,
                  status |-> "Submitted", filled |-> 0])
    /\ main' = [pc |-> "idle", ref |-> NoRef]
    /\ UNCHANGED <<brokerVars, gatewayMaps, spi, nextClientId, orderRefSequence, batch, books>>

\* cancel_order: refused unless the client id still maps to a ref.  The broker
\* ignores a request for an order it is done with.
CancelOrder(c) ==
    LET r == clientIdToOrderRef[c]
    IN  /\ main.pc = "idle"
        /\ r # NoRef
        /\ cancelAsked' = IF order[r].state = "done" THEN cancelAsked ELSE cancelAsked \union {r}
        /\ UNCHANGED <<order, available, feed, gatewayMaps, pendingEvents, spi, mainVars, batch, books>>

-----------------------------------------------------------------------------
(* The main thread drains the queue and applies the events one by one.     *)

DrainOrderEvents ==
    /\ main.pc = "idle" /\ batch = <<>> /\ pendingEvents # <<>>
    /\ batch' = pendingEvents
    /\ pendingEvents' = <<>>
    /\ UNCHANGED <<brokerVars, gatewayMaps, spi, mainVars, books>>

AppliedBefore(e) == IF e.client # NoClient THEN appliedByClient[e.client] ELSE appliedByRef[e.ref]

FillDeltaOfIncrement(e) == IF IsFillStatus(e.status) THEN e.filled ELSE 0
FillDeltaWhenFilled(e) == IF e.status = "Filled" THEN MaxOf(0, e.filled - AppliedBefore(e)) ELSE 0

\* consume_live_fill_delta: what the event's cumulative volume adds under its key.
FillDelta(e) ==
    IF IsFillStatus(e.status) THEN MaxOf(0, e.filled - AppliedBefore(e)) ELSE 0

LotsAfter(lots, offset, delta) ==
    IF offset = "Open" THEN lots + delta ELSE lots - MinOf(lots, delta)

ApplyLiveOrderEvent ==
    LET e     == Head(batch)
        delta == FillDelta(e)
        o     == order[e.ref]
    IN  /\ main.pc = "idle" /\ batch # <<>>
        /\ batch' = Tail(batch)
        /\ IF e.client # NoClient
           THEN /\ appliedByClient' = [appliedByClient EXCEPT ![e.client] = @ + delta]
                /\ UNCHANGED appliedByRef
           ELSE /\ appliedByRef' = [appliedByRef EXCEPT ![e.ref] = @ + delta]
                /\ UNCHANGED appliedByClient
        /\ accountLots' = LotsAfter(accountLots, o.offset, delta)
        /\ attachmentLots' = [attachmentLots EXCEPT ![o.strategy] = LotsAfter(@, o.offset, delta)]
        /\ IF IsTerminalStatus(e.status)
           THEN opened' = opened \ {e.ref} /\ closed' = [closed EXCEPT ![e.ref] = @ + 1]
           ELSE opened' = opened \union {e.ref} /\ UNCHANGED closed
        /\ UNCHANGED <<brokerVars, gatewayMaps, pendingEvents, spi, mainVars>>

-----------------------------------------------------------------------------
(* The callback thread.  It handles one message at a time: read and update  *)
(* the maps under the mutex, queue the event, then, if the order is over,  *)
(* erase its entries in a second critical section.                         *)

Incoming(kind) == spi.pc = "idle" /\ feed # <<>> /\ Head(feed).kind = kind

StartPush(e) == spi' = [pc |-> "push", event |-> e]

OnRspOrderInsert ==
    LET r == Head(feed).ref
    IN  /\ Incoming("RspOrderInsert")
        /\ feed' = Tail(feed)
        /\ StartPush([ref |-> r, client |-> orderToClientId[r], status |-> "Rejected", filled |-> 0])
        /\ UNCHANGED <<order, cancelAsked, available, gatewayMaps, pendingEvents, mainVars, batch, books>>

\* A fill is left to the trade report; any other report becomes an event.
OnRtnOrder ==
    LET m == Head(feed)
        r == m.ref
    IN  /\ Incoming("RtnOrder")
        /\ feed' = Tail(feed)
        /\ requestedVolume' = [requestedVolume EXCEPT ![r] = order[r].volume]
        /\ IF IsFillStatus(m.status) /\ m.traded > 0
           THEN UNCHANGED spi
           ELSE StartPush([ref |-> r, client |-> orderToClientId[r], status |-> m.status, filled |-> 0])
        /\ UNCHANGED <<order, cancelAsked, available, orderToClientId, clientIdToOrderRef,
                       cumulativeTradeVolume, pendingEvents, mainVars, batch, books>>

OrderFilledByReport(cumulative, requested, volume) == volume > 0
OrderFilled(cumulative, requested, volume) ==
    cumulative >= MaxOf(requested, volume)

\* The order is filled when the reports add up to the volume it asked for.
OnRtnTrade ==
    LET m          == Head(feed)
        r          == m.ref
        cumulative == cumulativeTradeVolume[r] + m.volume
    IN  /\ Incoming("RtnTrade")
        /\ feed' = Tail(feed)
        /\ cumulativeTradeVolume' = [cumulativeTradeVolume EXCEPT ![r] = cumulative]
        /\ StartPush([ref |-> r, client |-> orderToClientId[r], filled |-> cumulative,
                      status |-> IF OrderFilled(cumulative, requestedVolume[r], m.volume)
                                 THEN "Filled" ELSE "PartiallyFilled"])
        /\ UNCHANGED <<order, cancelAsked, available, orderToClientId, clientIdToOrderRef,
                       requestedVolume, pendingEvents, mainVars, batch, books>>

PushSpiEvent ==
    /\ spi.pc = "push"
    /\ PushEvent(spi.event)
    /\ spi' = IF IsTerminalStatus(spi.event.status) THEN [spi EXCEPT !.pc = "erase"] ELSE NoCallback
    /\ UNCHANGED <<brokerVars, gatewayMaps, mainVars, batch, books>>

EraseTerminal ==
    /\ spi.pc = "erase"
    /\ EraseOrder(spi.event.ref, spi.event.client)
    /\ spi' = NoCallback
    /\ UNCHANGED <<brokerVars, pendingEvents, mainVars, batch, books>>

-----------------------------------------------------------------------------
(* The broker and the exchange (external).                                 *)

\* A report names what this trade adds (volume) and VolumeTraded so far (traded).
Message(kind, r, status, volume, traded) ==
    [kind |-> kind, ref |-> r, status |-> status, volume |-> volume, traded |-> traded]

BrokerStep(r, state, messages) ==
    /\ order' = [order EXCEPT ![r].state = state]
    /\ feed' = feed \o messages
    /\ UNCHANGED <<gatewayMaps, pendingEvents, spi, mainVars, batch, books>>

BrokerAccepts(r) ==
    /\ order[r].state = "sent"
    /\ order[r].offset = "Close" => order[r].volume <= available
    /\ available' = IF order[r].offset = "Close" THEN available - order[r].volume ELSE available
    /\ BrokerStep(r, "working", <<Message("RtnOrder", r, "Accepted", 0, 0)>>)
    /\ UNCHANGED cancelAsked

\* A refused insert is answered twice: OnRspOrderInsert and OnErrRtnOrderInsert,
\* which the gateway forwards to the same handler.
BrokerRefuses(r) ==
    /\ order[r].state = "sent"
    /\ BrokerStep(r, "done", <<Message("RspOrderInsert", r, "Rejected", 0, 0),
                               Message("RspOrderInsert", r, "Rejected", 0, 0)>>)
    /\ cancelAsked' = cancelAsked \ {r}
    /\ UNCHANGED available

BrokerTrades(r, volume) ==
    LET total == order[r].traded + volume
        full  == total = order[r].volume
    IN  /\ order[r].state = "working" /\ total <= order[r].volume
        /\ order' = [order EXCEPT ![r].traded = total,
                                  ![r].state  = IF full THEN "done" ELSE "working"]
        /\ feed' = feed \o <<Message("RtnOrder", r, IF full THEN "Filled" ELSE "PartiallyFilled", 0, total),
                             Message("RtnTrade", r, "Accepted", volume, total)>>
        /\ available' = IF order[r].offset = "Open" THEN available + volume ELSE available
        /\ cancelAsked' = IF full THEN cancelAsked \ {r} ELSE cancelAsked
        /\ UNCHANGED <<gatewayMaps, pendingEvents, spi, mainVars, batch, books>>

BrokerCancels(r) ==
    /\ order[r].state = "working" /\ r \in cancelAsked
    /\ available' = IF order[r].offset = "Close"
                    THEN available + (order[r].volume - order[r].traded) ELSE available
    /\ BrokerStep(r, "done", <<Message("RtnOrder", r, "Cancelled", 0, order[r].traded)>>)
    /\ cancelAsked' = cancelAsked \ {r}

-----------------------------------------------------------------------------
Submission == InsertFails \/ EraseFailedInsert \/ PushSubmitted \/ \E ioc \in BOOLEAN : InsertSent(ioc)
EventLoop  == DrainOrderEvents \/ ApplyLiveOrderEvent
Callback   == OnRspOrderInsert \/ OnRtnOrder \/ OnRtnTrade \/ PushSpiEvent \/ EraseTerminal
Strategy   == \/ \E s \in Strategies, offset \in Offsets, volume \in 1..MaxVolume :
                    SubmitOrder(s, offset, volume)
              \/ \E c \in Clients : CancelOrder(c)
Broker     == \E r \in Refs :
                 \/ BrokerAccepts(r) \/ BrokerRefuses(r) \/ BrokerCancels(r)
                 \/ \E volume \in 1..MaxVolume : BrokerTrades(r, volume)

Next == Submission \/ EventLoop \/ Callback \/ Strategy \/ Broker

SafeSpec == Init /\ [][Next]_vars

(* The main loop runs until the process is stopped and the callback thread  *)
(* belongs to the CTP library: both keep taking steps.  Nothing is assumed *)
(* of the strategies and the broker, who may fall silent at any time.      *)
Fairness == WF_vars(Submission) /\ WF_vars(EventLoop) /\ WF_vars(Callback)

Spec == SafeSpec /\ Fairness

-----------------------------------------------------------------------------
Event == [ref : Refs, client : Clients \union {NoClient}, status : Status, filled : Nat]
FeedMessage == [kind : {"RspOrderInsert", "RtnOrder", "RtnTrade"}, ref : Refs,
                status : Status, volume : 0..MaxVolume, traded : 0..MaxVolume]
OrderRecord == [strategy : Strategies \union {NoStrategy}, client : Clients \union {NoClient},
                offset : Offsets, volume : 0..MaxVolume, traded : 0..MaxVolume,
                state : {"free", "new", "sent", "working", "done", "failed"}]

TypeOfBroker ==
    /\ order \in [Refs -> OrderRecord]
    /\ cancelAsked \subseteq Refs
    /\ available \in Int
    /\ feed \in Seq(FeedMessage)
TypeOfGateway ==
    /\ orderToClientId \in [Refs -> Clients \union {NoClient}]
    /\ clientIdToOrderRef \in [Clients -> Refs \union {NoRef}]
    /\ requestedVolume \in [Refs -> 0..MaxVolume]
    /\ cumulativeTradeVolume \in [Refs -> Nat]
TypeOfThreads ==
    /\ pendingEvents \in Seq(Event) /\ batch \in Seq(Event)
    /\ spi \in [pc : {"idle", "push", "erase"}, event : Event \union {NoEvent}]
    /\ spi.pc # "idle" => spi.event \in Event
    /\ main \in [pc : {"idle", "insert", "push", "erase"}, ref : Refs \union {NoRef}]
    /\ main.pc # "idle" => main.ref \in Refs
    /\ orderRefSequence \in 0..MaxOrders
    /\ nextClientId \in [Strategies -> 0..MaxOrders]
TypeOfBooks ==
    /\ accountLots \in Int /\ attachmentLots \in [Strategies -> Int]
    /\ appliedByClient \in [Clients -> Nat] /\ appliedByRef \in [Refs -> Nat]
    /\ opened \subseteq Refs /\ closed \in [Refs -> Nat]

\* The state of the broker's answers, the shared maps, both threads and the books.
TypeOK == TypeOfBroker /\ TypeOfGateway /\ TypeOfThreads /\ TypeOfBooks

\* Nothing is in flight between the broker and the books.
Quiet == /\ main.pc = "idle" /\ spi.pc = "idle"
         /\ feed = <<>> /\ pendingEvents = <<>> /\ batch = <<>>

\* Lots of the order that were added to or taken from the positions.
Booked(r) == appliedByRef[r]
             + (IF order[r].client = NoClient THEN 0 ELSE appliedByClient[order[r].client])

(* Fills reach the positions as cumulative volumes that are turned back into*)
(* increments by a table keyed by client id: no lot is booked that did not *)
(* trade, or twice, and a lot is booked once its report was applied.       *)
Ledger == INSTANCE FillLedger
              WITH traded <- [r \in Refs |-> order[r].traded],
                   booked <- [r \in Refs |-> Booked(r)]
NeverOverbooked == \A r \in Refs : Booked(r) <= order[r].traded
ImplementsLedger == Ledger!Spec

(* The account position and the strategies' attachment positions are booked *)
(* separately from the same events and must add up, since the next start   *)
(* refuses to trade when the broker disagrees with the strategies' sum.    *)
AttachmentsAddUp == accountLots = TotalLots(attachmentLots)

\* Every lot that traded is booked once nothing is in flight.
NothingIsMissing == Quiet => \A r \in Refs : Booked(r) = order[r].traded

(* The books always add up, and are complete whenever nothing is in flight.*)
QuietBooksAreComplete == AttachmentsAddUp /\ NothingIsMissing

(* The strategy that owns an order the broker still works can see it among *)
(* its open orders and can cancel it by its client id.                     *)
WorkingOrdersAreReachable ==
    Quiet => \A r \in Refs : order[r].state = "working" =>
                 /\ r \in opened
                 /\ orderToClientId[r] = order[r].client
                 /\ clientIdToOrderRef[order[r].client] = r

(* No order leaves entries behind in the gateway's maps once it is over.   *)
MapsAreReclaimed ==
    Quiet => \A r \in Refs : order[r].state \in {"free", "done", "failed"} =>
                 /\ orderToClientId[r] = NoClient
                 /\ requestedVolume[r] = 0 /\ cumulativeTradeVolume[r] = 0
                 /\ \A c \in Clients : clientIdToOrderRef[c] # r

(* A strategy is told that an order filled exactly when all of it is booked.*)
FilledMeansFull ==
    [][\A r \in Refs : (closed'[r] > closed[r] /\ Head(batch).status = "Filled")
                          => Booked(r)' = order[r].volume]_vars

(* An order the broker is done with is reported to its strategy as over.   *)
EndIsReported == \A r \in Refs : (order[r].state = "done") ~> (closed[r] > 0)
=============================================================================
