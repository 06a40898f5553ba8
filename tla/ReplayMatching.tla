--------------------------- MODULE ReplayMatching ---------------------------
(* How a replay matches one limit order against recorded ticks: the trades   *)
(* of an interval are inferred from two ticks, an order fills at once when   *)
(* the market is through its price, and otherwise waits behind the queue it  *)
(* found.  Prices are whole ticks; volume and turnover are kept as what an   *)
(* interval added to them, 0 where the code cuts a decrease off.  Market     *)
(* orders, activation times and other instruments are in BacktestEngine,     *)
(* which leaves open what Match decides here.                                *)
EXTENDS Integers, FiniteSetsExt, SequencesExt

CONSTANTS
    Prices,          \* an interval of prices in ticks
    Sizes,           \* quoted sizes
    Trades,          \* what an interval may trade: sets of functions price -> lots
    Volumes,         \* volumes ordered
    Setups,          \* [policy, mode, multiplier]: policy and matching_mode of the
                     \* orders, the contract's multiplier
    QueuePercent,    \* queue_ahead_ratio in percent
    NoQuote, NoOrder, NoFill

ASSUME MatchingAssumption ==
    /\ IsFiniteSet(Prices) /\ Prices \subseteq Nat \ {0}
    /\ \A low, high \in Prices : low .. high \subseteq Prices
    /\ Sizes \subseteq Nat \ {0} /\ Volumes \subseteq Nat \ {0}
    /\ Trades \subseteq [Prices -> Nat]
    /\ Setups \subseteq [policy : {"NativeOrder", "RuntimeSyntheticFill"}, mode : Nat,
                         multiplier : Nat \ {0}, turnover : BOOLEAN]
    /\ QueuePercent \in Nat
    /\ NoQuote \notin [bid : Prices, ask : Prices, bidSize : Sizes, askSize : Sizes, last : Prices]

VARIABLES
    setup,           \* the attachment's cost model and its strategy's policy
    quote,           \* previous_ticks of the instrument
    order,           \* the strategy's PendingOrder, if it has one
    fill             \* what the last tick gave an order, and the market it met

matchVars == <<setup, quote, order, fill>>

Larger(a, b) == IF a > b THEN a ELSE b
Smaller(a, b) == IF a < b THEN a ELSE b
Total(at) == FoldFunction(LAMBDA n, m : n + m, 0, at)

(* Average prices are kept as num / den. *)
Ratio(num, den) == [num |-> num, den |-> den]
AtLastPrice(t) == Ratio(t.last, 1)

-----------------------------------------------------------------------------
(* infer_trade_flow: lots that left the best ask, then the best bid; the     *)
(* rest traded at the average price.  p is the tick before t, or NoQuote.    *)
NoFlow(t) == [volume |-> 0, vwap |-> AtLastPrice(t), at |-> [q \in Prices |-> 0]]

AskGone(p, t) ==
    IF t.ask > p.ask THEN p.askSize
    ELSE IF t.ask = p.ask THEN Larger(0, p.askSize - t.askSize) ELSE 0

BidGone(p, t) ==
    IF t.bid < p.bid THEN p.bidSize
    ELSE IF t.bid = p.bid THEN Larger(0, p.bidSize - t.bidSize) ELSE 0

infer_trade_flow(p, t) ==
    IF p = NoQuote \/ t.volume = 0 THEN NoFlow(t)
    ELSE LET vwap  == IF t.money > 0 THEN Ratio(t.money, t.volume) ELSE AtLastPrice(t)
             atAsk == Smaller(t.volume, AskGone(p, t))
             atBid == Smaller(t.volume - atAsk, BidGone(p, t))
         IN  [volume |-> t.volume,
              vwap   |-> vwap,
              at     |-> [q \in Prices |->
                             (IF q = p.ask THEN atAsk ELSE 0) + (IF q = p.bid THEN atBid ELSE 0)
                             + (IF q * vwap.den = vwap.num THEN t.volume - atAsk - atBid ELSE 0)]]

(* can_fill_immediately, and synthetic_order_crossed. *)
Crosses(o, t, flow) ==
    IF o.side = "Buy"
    THEN \/ o.limit >= t.ask
         \/ flow.volume > 0 /\ (o.limit > t.last \/ o.limit * flow.vwap.den > flow.vwap.num)
         \/ o.limit > t.bid /\ flow.at[t.bid] > 0
    ELSE \/ o.limit <= t.bid
         \/ flow.volume > 0 /\ (o.limit < t.last \/ o.limit * flow.vwap.den < flow.vwap.num)
         \/ o.limit < t.ask /\ flow.at[t.ask] > 0

fill_price_at_the_quote(o, p, t) == IF o.side = "Buy" THEN t.ask ELSE t.bid

(* fill_price, synthetic_fill_price: an order through both quotes of the     *)
(* interval gets the worse of them, any other its limit.                     *)
fill_price(o, p, t) ==
    IF p = NoQuote THEN o.limit
    ELSE IF o.side = "Buy" /\ o.limit > t.ask /\ o.limit > p.ask THEN Larger(t.ask, p.ask)
    ELSE IF o.side = "Sell" /\ o.limit < t.bid /\ o.limit < p.bid THEN Smaller(t.bid, p.bid)
    ELSE o.limit

(* estimate_queue_ahead, (synthetic_)visible_queue_at_order_price *)
VisibleQueue(o, t) ==
    IF o.side = "Buy" /\ o.limit = t.bid THEN t.bidSize
    ELSE IF o.side = "Sell" /\ o.limit = t.ask THEN t.askSize ELSE 0

InsideSpread(o, t) == t.bid < o.limit /\ o.limit < t.ask

refresh_queue_ahead(o, t) ==
    IF VisibleQueue(o, t) > 0 THEN Smaller(o.queueAhead, VisibleQueue(o, t))
    ELSE IF InsideSpread(o, t) THEN 0 ELSE o.queueAhead

(* What matching an order comes to: the lots it gets and how it waits on.    *)
Gets(lots, o) == [lots |-> lots, queueAhead |-> o.queueAhead, activated |-> o.activated]
Waits(queueAhead) == [lots |-> 0, queueAhead |-> queueAhead, activated |-> TRUE]

resting_fill_whole(o, p, t) ==
    LET flow   == infer_trade_flow(p, t)
        queue  == refresh_queue_ahead(o, t)
        traded == flow.at[o.limit]
    IN  IF Crosses(o, t, flow) \/ queue < traded THEN Gets(o.remaining, o)
        ELSE Waits(queue - traded)

(* resting_fill_volume *)
resting_fill_volume(o, p, t) ==
    LET flow   == infer_trade_flow(p, t)
        queue  == refresh_queue_ahead(o, t)
        traded == flow.at[o.limit]
    IN  IF Crosses(o, t, flow) THEN Gets(o.remaining, o)
        ELSE IF queue >= traded THEN Waits(queue - traded)
        ELSE [Waits(0) EXCEPT !.lots = Smaller(o.remaining, traded - queue)]

-----------------------------------------------------------------------------
(* infer_synthetic_trade_flow.  Amount is the turnover in ticks times lots.  *)
Amount(t) == t.money \div setup.multiplier
SyntheticVwap(t) == IF t.money > 0 THEN Ratio(Amount(t), t.volume) ELSE AtLastPrice(t)

Floor(ratio) == ratio.num \div ratio.den
Ceiling(ratio) == (ratio.num + ratio.den - 1) \div ratio.den
Nearest(ratio) == (2 * ratio.num + ratio.den - 1) \div (2 * ratio.den)
Distance(a, b) == Larger(a - b, b - a)

AllAt(price, lots) == [q \in Prices |-> IF q = price THEN lots ELSE 0]
Move(at, lots, from, to) == [at EXCEPT ![from] = @ - lots, ![to] = @ + lots]

LastGetsOne(at, last, lower, upper) ==
    IF at[last] > 0 THEN at ELSE [at EXCEPT ![last] = 1]

(* populate_mode0_distribution: the two prices around the average share the  *)
(* lots; a last price that got none takes one from the nearer of them.       *)
LastTakesOne(at, last, lower, upper) ==
    IF at[last] > 0 THEN at
    ELSE IF Distance(last, lower) <= Distance(last, upper) /\ at[lower] > 0 THEN Move(at, 1, lower, last)
    ELSE IF at[upper] > 0 THEN Move(at, 1, upper, last)
    ELSE at

AroundAverage(t, vwap) ==
    LET lower    == Floor(vwap)
        upper    == Ceiling(vwap)
        lowerQty == (upper * t.volume * vwap.den - vwap.num * t.volume) \div vwap.den
    IN  IF lower = upper THEN AllAt(lower, t.volume)
        ELSE LastTakesOne(Move(AllAt(upper, t.volume), lowerQty, upper, lower), t.last, lower, upper)

(* The other modes: lots are moved from the price next to the average, the   *)
(* farthest first, until prices times lots make up the turnover; if they     *)
(* cannot, as above.                                                         *)
MoveFrom(centre, direction, s, distance) ==
    LET lots == Smaller(s.at[centre], s.steps \div distance)
    IN  [at |-> Move(s.at, lots, centre, centre + direction * distance),
         steps |-> s.steps - lots * distance]

Downwards(n) == [k \in 1 .. n |-> n + 1 - k]

SpreadOut(p, t, vwap) ==
    LET lowest    == Min({Floor(vwap), p.bid, t.bid})
        highest   == Max({Ceiling(vwap), p.ask, t.ask})
        centre    == Nearest(vwap)
        missing   == Amount(t) - centre * t.volume
        direction == IF missing > 0 THEN 1 ELSE -1
        reach     == IF missing > 0 THEN highest - centre ELSE centre - lowest
        spread    == FoldLeft(LAMBDA s, d : MoveFrom(centre, direction, s, d),
                              [at |-> AllAt(centre, t.volume), steps |-> Distance(missing, 0)],
                              Downwards(reach))
    IN  IF spread.steps = 0 THEN spread.at ELSE AroundAverage(t, vwap)

infer_synthetic_trade_flow(p, t) ==
    IF p = NoQuote \/ t.volume = 0 THEN NoFlow(t)
    ELSE [volume |-> t.volume,
          vwap   |-> SyntheticVwap(t),
          at     |-> IF t.volume = 1 THEN AllAt(t.last, 1)
                     ELSE IF setup.mode = 0 THEN AroundAverage(t, SyntheticVwap(t))
                     ELSE SpreadOut(p, t, SyntheticVwap(t))]

(* What is ahead of a waiting order after lots traded at its price. *)
RefreshedThenTraded(o, t, traded) == Larger(0, Smaller(o.queueAhead, VisibleQueue(o, t)) - traded)

QueueAfter(o, t, traded) == Smaller(VisibleQueue(o, t), Larger(0, o.queueAhead - traded))

QueueOnArrival(o, t, traded) ==
    LET behind   == Larger(0, VisibleQueue(o, t) + traded - o.queueAhead)
        estimate == (QueuePercent * behind + 99) \div 100 - traded + o.queueAhead
    IN  Smaller(VisibleQueue(o, t), Larger(0, estimate))

(* synthetic_resting_fill_volume: all or nothing. *)
synthetic_resting_fill_volume(o, p, t) ==
    LET flow   == infer_synthetic_trade_flow(p, t)
        traded == flow.at[o.limit]
    IN  IF p = NoQuote THEN Gets(0, o)
        ELSE IF Crosses(o, t, flow) THEN Gets(o.remaining, o)
        ELSE IF ~o.activated THEN Waits(QueueOnArrival(o, t, traded))
        ELSE IF traded - o.queueAhead >= o.remaining THEN Gets(o.remaining, o)
        ELSE Waits(QueueAfter(o, t, traded))
-----------------------------------------------------------------------------
Synthetic == setup.policy = "RuntimeSyntheticFill"
Flow(p, t) == IF Synthetic THEN infer_synthetic_trade_flow(p, t) ELSE infer_trade_flow(p, t)

(* A new order's one look at the tick it answers: a native one fills whole   *)
(* or joins the queue it sees.                                               *)
Arrival(o, p, t) ==
    IF Synthetic THEN synthetic_resting_fill_volume(o, p, t)
    ELSE IF Crosses(o, t, infer_trade_flow(p, t)) THEN Gets(o.remaining, o)
    ELSE Waits(VisibleQueue(o, t))

Service(o, p, t) ==
    IF Synthetic THEN synthetic_resting_fill_volume(o, p, t) ELSE resting_fill_volume(o, p, t)

(* What an exchange would keep of the order, which the engine cannot see:    *)
(* ahead are the lots before it at its price, known as long as that price is *)
(* the best of its side, or nobody is there; of the lots ahead, traded ones  *)
(* leave first, and any others may have been cancelled.  paid counts what    *)
(* traded at its price while it waited.                                      *)
AtTheFront(o, t) == VisibleQueue(o, t) > 0 \/ InsideSpread(o, t)

QueueMay(o, t, traded, joins) ==
    IF ~AtTheFront(o, t) THEN {0}
    ELSE IF joins THEN {VisibleQueue(o, t)}
    ELSE 0 .. Smaller(VisibleQueue(o, t), Larger(0, o.ahead - traded))

(* The order after a match m of it on tick t; it joins when it first waits.  *)
After(o, m, p, t) ==
    LET traded == Flow(p, t).at[o.limit]
        joins  == m.activated /\ ~o.activated
    IN  {[o EXCEPT !.remaining = @ - m.lots, !.queueAhead = m.queueAhead, !.activated = m.activated,
                   !.ahead = a,
                   !.known = AtTheFront(o, t) /\ (joins \/ o.known),
                   !.paid = IF o.activated THEN Smaller(@ + traded, o.volume) ELSE 0] :
            a \in QueueMay(o, t, traded, joins)}

Seen(p, t) == {t.bid, t.ask, t.last} \cup {q \in Prices : t.trades[q] > 0}
              \cup (IF p = NoQuote THEN {} ELSE {p.bid, p.ask})

(* The fill a match made, with the flow it was made on, the volume and the   *)
(* turnover of the interval and the prices seen in it.                       *)
Fills(o, m, p, t) ==
    IF m.lots = 0 THEN NoFill
    ELSE [order   |-> o,
          lots    |-> m.lots,
          price   |-> fill_price(o, p, t),
          through |-> Crosses(o, t, Flow(p, t)),
          flow    |-> Flow(p, t).at,
          volume  |-> t.volume,
          amount  |-> t.money \div setup.multiplier,
          seen    |-> Seen(p, t)]

(* previous_ticks[instrument] = tick *)
Remembers(t) ==
    quote' = [bid |-> t.bid, ask |-> t.ask, bidSize |-> t.bidSize, askSize |-> t.askSize, last |-> t.last]

Match(o, m, p, t) ==
    /\ order' \in IF m.lots = o.remaining THEN {NoOrder} ELSE After(o, m, p, t)
    /\ fill' = Fills(o, m, p, t)
    /\ Remembers(t)
    /\ UNCHANGED setup

NewOrder(side, limit, volume) ==
    [side |-> side, limit |-> limit, volume |-> volume, remaining |-> volume, queueAhead |-> 0,
     activated |-> FALSE, ahead |-> 0, known |-> FALSE, paid |-> 0]

(* A tick: any book, any trades; the last price is one of the trades', or    *)
(* the one before; a recorded turnover is the value of the trades times the  *)
(* multiplier, and some recordings have none.                                *)
Value(trades) == MapThenSumSet(LAMBDA q : q * trades[q], Prices)

LastPrices(trades) ==
    IF Total(trades) > 0 THEN {q \in Prices : trades[q] > 0}
    ELSE IF quote = NoQuote THEN Prices ELSE {quote.last}

Books == {b \in [bid : Prices, ask : Prices, bidSize : Sizes, askSize : Sizes] : b.bid < b.ask}

TickOf(b, trades, last) ==
    [bid |-> b.bid, ask |-> b.ask, bidSize |-> b.bidSize, askSize |-> b.askSize, last |-> last,
     trades |-> trades, volume |-> Total(trades),
     money |-> IF setup.turnover THEN setup.multiplier * Value(trades) ELSE 0]

MatchInit ==
    /\ setup \in Setups
    /\ quote = NoQuote /\ order = NoOrder /\ fill = NoFill

(* A tick serves the resting order, or the strategy answers it with a new    *)
(* one, or it only moves the market.  A behaviour is the life of one order.  *)
ServiceOrder(t) == order # NoOrder /\ Match(order, Service(order, quote, t), quote, t)

SubmitOrder(t) ==
    /\ order = NoOrder
    /\ \E side \in {"Buy", "Sell"}, limit \in Prices, volume \in Volumes :
          LET o == NewOrder(side, limit, volume)
          IN  Match(o, Arrival(o, quote, t), quote, t)

QuietTick(t) == order = NoOrder /\ Remembers(t) /\ fill' = NoFill /\ UNCHANGED <<setup, order>>

Over == order = NoOrder /\ fill # NoFill

MatchNext ==
    /\ ~Over
    /\ \E b \in Books, trades \in Trades : \E last \in LastPrices(trades) :
          LET t == TickOf(b, trades, last)
          IN  ServiceOrder(t) \/ SubmitOrder(t) \/ QuietTick(t)

-----------------------------------------------------------------------------
(* A limit is a limit: a buy never pays more, a sell never gets less; and an *)
(* order fills only if its limit was within reach of some quote or trade of  *)
(* the interval.                                                             *)
LimitHolds ==
    fill # NoFill =>
        IF fill.order.side = "Buy"
        THEN fill.price <= fill.order.limit /\ fill.order.limit >= Min(fill.seen)
        ELSE fill.price >= fill.order.limit /\ fill.order.limit <= Max(fill.seen)

(* The flow a synthetic order is matched on holds every lot of the interval  *)
(* once, and, unless matching_mode is 0, at prices that make up the turnover.*)
FlowAddsUp ==
    Synthetic /\ fill # NoFill =>
        /\ Total(fill.flow) = fill.volume
        /\ setup.mode # 0 /\ setup.turnover => Value(fill.flow) = fill.amount

TradedAtLimit == fill.flow[fill.order.limit]

(* Lots handed to a waiting order were traded at its price since it waits,   *)
(* unless the market went through its limit; a synthetic order gets all of   *)
(* its lots from trades of one interval, or none, and the flow that says so  *)
(* adds up.                                                                  *)
FillsArePaidFor ==
    /\ FlowAddsUp
    /\ fill # NoFill /\ ~fill.through =>
          /\ fill.order.volume - fill.order.remaining + fill.lots <= fill.order.paid + TradedAtLimit
          /\ Synthetic => fill.lots = fill.order.volume /\ fill.lots <= TradedAtLimit

(* The synthetic matcher never jumps the queue: an order whose price stayed  *)
(* the best of its side fills only by trades that had used up every lot an   *)
(* exchange could still have before it.  (resting_fill_volume does jump: it  *)
(* cuts the queue to the visible size, from which the trades are gone, and   *)
(* then takes the trades off once more.)                                     *)
NobodyJumpsTheQueue ==
    Synthetic /\ fill # NoFill /\ ~fill.through /\ fill.order.known =>
        fill.order.ahead + fill.lots <= TradedAtLimit
=============================================================================
