------------------------- MODULE CtpOrderFlow_proofs -------------------------
(***************************************************************************)
(* What is proved of the live order flow for every number of strategies,   *)
(* orders and lots: its type invariant; that no lot is ever booked that did *)
(* not trade; that none is lost, no order out of its owner's reach and no   *)
(* entry left behind; that the flow keeps the ledger; and that the account  *)
(* holds what its strategies hold.  An inductive invariant follows a fill   *)
(* on its whole way: from the report in the feed, through the callback in  *)
(* progress and the queued events, to the table of applied volumes.        *)
(***************************************************************************)
EXTENDS CtpOrderFlow, TLAPS, SequenceTheorems, FiniteSetTheorems

-----------------------------------------------------------------------------
(* The parts of the inductive invariant.                                   *)

\* Refs are used in order; an unused one holds nothing.
RefsInOrder ==
    /\ \A r \in Refs : r > orderRefSequence => order[r] = NoOrder
    /\ \A s \in Strategies : nextClientId[s] <= orderRefSequence

\* A client id is used by one order, and the table knows only used ids.
ClientsAreFresh ==
    /\ \A r \in Refs : order[r].client # NoClient =>
           order[r].client[2] <= nextClientId[order[r].client[1]]
    /\ \A q, r \in Refs : order[q].client = order[r].client /\ order[q].client # NoClient
                             => q = r
    /\ \A c \in Clients : c[2] > nextClientId[c[1]] => appliedByClient[c] = 0

\* What the broker may do next agrees with what the order has traded.
BrokerCounts ==
    \A r \in Refs :
        /\ order[r].traded <= order[r].volume
        /\ order[r].state \in {"new", "sent"} => order[r].volume > 0
        /\ order[r].state \in {"free", "new", "sent", "failed"} => order[r].traded = 0
        /\ order[r].state = "working" => order[r].traded < order[r].volume

\* The submission in progress has not been answered.
SubmissionAnswerable ==
    /\ main.pc # "idle" => order[main.ref].client # NoClient
    /\ main.pc = "insert" => order[main.ref].state = "new"
    /\ main.pc = "erase" => order[main.ref].state = "failed"

\* Until its maps are erased an order can be found by its ref.
MapsAgree ==
    \A r \in Refs :
        /\ orderToClientId[r] \in {NoClient, order[r].client}
        /\ orderToClientId[r] # NoClient => requestedVolume[r] = order[r].volume
        /\ order[r].state \in {"new", "sent", "working"} => orderToClientId[r] # NoClient
        /\ cumulativeTradeVolume[r] <= order[r].traded

IsTrade(i, r) == i \in 1..Len(feed) /\ feed[i].kind = "RtnTrade" /\ feed[i].ref = r

\* The reports of an order's trades arrive in order and none is counted yet.
TradesInOrder ==
    /\ \A r \in Refs : \A i \in 1..Len(feed) : IsTrade(i, r) =>
           /\ feed[i].volume > 0
           /\ feed[i].traded <= order[r].traded
           /\ cumulativeTradeVolume[r] + feed[i].volume <= feed[i].traded
           /\ orderToClientId[r] # NoClient
    /\ \A r \in Refs : \A i, j \in 1..Len(feed) : (i < j /\ IsTrade(i, r) /\ IsTrade(j, r)) =>
           feed[i].traded + feed[j].volume <= feed[j].traded

\* A report that ends an order is the last word on it.
NothingFollows(i) ==
    /\ feed[i].kind = "RspOrderInsert" =>
           order[feed[i].ref].state = "done" /\ order[feed[i].ref].traded = 0
    /\ (feed[i].kind = "RtnOrder" /\ ~ IsFillStatus(feed[i].status) /\ IsTerminalStatus(feed[i].status)) =>
           /\ order[feed[i].ref].state = "done"
           /\ \A j \in 1..Len(feed) : j > i => ~ IsTrade(j, feed[i].ref)
    /\ (feed[i].kind = "RtnOrder" /\ IsFillStatus(feed[i].status)) => feed[i].traded > 0
EndsComeLast == \A i \in 1..Len(feed) : NothingFollows(i)

\* An event that carries a fill names its order's client id and no lot that did not trade.
Credible(e) ==
    /\ e.client \in {NoClient, order[e.ref].client}
    /\ e.filled <= order[e.ref].traded
    /\ e.client = NoClient => e.filled = 0

EventsAreCredible ==
    /\ \A i \in 1..Len(pendingEvents) : Credible(pendingEvents[i])
    /\ \A i \in 1..Len(batch) : Credible(batch[i])
    /\ spi.pc # "idle" => Credible(spi.event)

\* When the callback is about to erase an order, no trade of it is still to come.
ErasureIsFinal ==
    /\ (spi.pc # "idle" /\ IsTerminalStatus(spi.event.status)) =>
           /\ order[spi.event.ref].state = "done"
           /\ \A i \in 1..Len(feed) : ~ IsTrade(i, spi.event.ref)
    /\ spi.pc = "erase" => IsTerminalStatus(spi.event.status)

TableIsBehind ==
    \A r \in Refs :
        /\ appliedByRef[r] = 0
        /\ order[r].client # NoClient => appliedByClient[order[r].client] <= order[r].traded

IndInv ==
    /\ TypeOK
    /\ RefsInOrder
    /\ ClientsAreFresh
    /\ BrokerCounts
    /\ SubmissionAnswerable
    /\ MapsAgree
    /\ TradesInOrder
    /\ EndsComeLast
    /\ EventsAreCredible
    /\ ErasureIsFinal
    /\ TableIsBehind

-----------------------------------------------------------------------------
(* A client id is never the empty mark that stands for a missing one.       *)
LEMMA ClientsAreNamed == NoClient \notin Clients
  BY DEF NoClient, Clients

(* What two appended messages leave of a sequence and where they are.      *)
LEMMA AppendTwo ==
    ASSUME NEW S, NEW s \in Seq(S), NEW a \in S, NEW b \in S
    PROVE  /\ s \o <<a, b>> \in Seq(S)
           /\ Len(s \o <<a, b>>) = Len(s) + 2
           /\ \A i \in 1..Len(s) : (s \o <<a, b>>)[i] = s[i]
           /\ (s \o <<a, b>>)[Len(s) + 1] = a
           /\ (s \o <<a, b>>)[Len(s) + 2] = b
  OBVIOUS

LEMMA AppendOne ==
    ASSUME NEW S, NEW s \in Seq(S), NEW a \in S
    PROVE  /\ s \o <<a>> \in Seq(S)
           /\ Len(s \o <<a>>) = Len(s) + 1
           /\ \A i \in 1..Len(s) : (s \o <<a>>)[i] = s[i]
           /\ (s \o <<a>>)[Len(s) + 1] = a
  OBVIOUS

LEMMA TailShifts ==
    ASSUME NEW S, NEW s \in Seq(S), s # <<>>
    PROVE  /\ Head(s) \in S /\ Head(s) = s[1]
           /\ Tail(s) \in Seq(S)
           /\ Len(s) \in Nat /\ Len(s) >= 1
           /\ Len(Tail(s)) = Len(s) - 1
           /\ \A i \in 1..Len(Tail(s)) : i + 1 \in 1..Len(s) /\ Tail(s)[i] = s[i + 1]
  OBVIOUS

(* The initial state satisfies every part of the invariant.                *)
LEMMA InitHolds == Init => IndInv
<1> SUFFICES ASSUME Init PROVE IndInv
  OBVIOUS
<1> USE MaxOrdersAssumption, MaxVolumeAssumption, InitialLotsAssumption, ClientsAreNamed DEF Init
<1>1. TypeOK
  BY DEF TypeOK, TypeOfBroker, TypeOfGateway, TypeOfThreads, TypeOfBooks, Refs, OrderRecord, NoOrder, Offsets, FeedMessage, Event, NoCallback, NoRef, NoClient, NoStrategy, NoEvent
<1>2. RefsInOrder /\ ClientsAreFresh /\ BrokerCounts
  BY DEF RefsInOrder, ClientsAreFresh, BrokerCounts, NoOrder
<1>3. SubmissionAnswerable /\ MapsAgree
  BY DEF SubmissionAnswerable, MapsAgree, NoOrder
<1>4. TradesInOrder /\ EndsComeLast /\ EventsAreCredible
  BY DEF TradesInOrder, EndsComeLast, EventsAreCredible, NoCallback
<1>5. ErasureIsFinal /\ TableIsBehind
  BY DEF ErasureIsFinal, TableIsBehind, NoCallback, NoOrder
<1>6. QED
  BY <1>1, <1>2, <1>3, <1>4, <1>5 DEF IndInv

-----------------------------------------------------------------------------
(* Every step keeps the type invariant.                                    *)
LEMMA TypePreserved == TypeOK /\ RefsInOrder /\ [Next]_vars => TypeOK'
<1> SUFFICES ASSUME TypeOK, RefsInOrder, [Next]_vars PROVE TypeOK'
  OBVIOUS
<1> USE MaxOrdersAssumption, MaxVolumeAssumption, ClientsAreNamed DEF TypeOK
<1>a. UNCHANGED brokerVars => TypeOfBroker'
  BY DEF TypeOfBroker, brokerVars
<1>b. UNCHANGED gatewayMaps => TypeOfGateway'
  BY DEF TypeOfGateway, gatewayMaps
<1>c. UNCHANGED <<pendingEvents, batch, spi, mainVars>> => TypeOfThreads'
  BY DEF TypeOfThreads, mainVars
<1>d. UNCHANGED books => TypeOfBooks'
  BY DEF TypeOfBooks, books
<1>e. ASSUME NEW r \in Refs, NEW c \in Clients \union {NoClient}, EraseOrder(r, c) PROVE TypeOfGateway'
  BY <1>e DEF TypeOfGateway, EraseOrder, Refs, NoRef
<1>1. ASSUME NEW s \in Strategies, NEW offset \in Offsets, NEW volume \in 1..MaxVolume,
             SubmitOrder(s, offset, volume)
      PROVE  TypeOK'
  <2> DEFINE r == orderRefSequence + 1
             c == <<s, nextClientId[s] + 1>>
  <2>1. nextClientId[s] + 1 \in 1..MaxOrders /\ r \in Refs
    BY <1>1 DEF SubmitOrder, RefAvailable, RefsInOrder, TypeOfThreads, Refs
  <2>2. c \in Clients
    BY <2>1 DEF Clients
  <2>3. [strategy |-> s, client |-> c, offset |-> offset, volume |-> volume,
         state |-> "new", traded |-> 0] \in OrderRecord
    BY <2>2 DEF OrderRecord
  <2>4. TypeOfBroker'
    BY <1>1, <2>1, <2>3 DEF SubmitOrder, TypeOfBroker
  <2>5. TypeOfGateway'
    BY <1>1, <2>1, <2>2 DEF SubmitOrder, TypeOfGateway
  <2>6. TypeOfThreads'
    BY <1>1, <2>1 DEF SubmitOrder, TypeOfThreads, Refs
  <2>7. QED
    BY <1>1, <1>d, <2>4, <2>5, <2>6 DEF SubmitOrder
<1>2. ASSUME NEW ioc \in BOOLEAN, InsertSent(ioc) PROVE TypeOK'
  <2>1. main.ref \in Refs
    BY <1>2 DEF InsertSent, TypeOfThreads
  <2>2. TypeOfBroker'
    BY <1>2, <2>1, ZenonT(60) DEF InsertSent, TypeOfBroker, OrderRecord
  <2>3. TypeOfThreads'
    BY <1>2 DEF InsertSent, TypeOfThreads
  <2>4. QED
    BY <1>2, <1>b, <1>d, <2>2, <2>3 DEF InsertSent
<1>3. CASE InsertFails
  <2>1. main.ref \in Refs
    BY <1>3 DEF InsertFails, TypeOfThreads
  <2>2. TypeOfBroker'
    BY <1>3, <2>1, ZenonT(60) DEF InsertFails, TypeOfBroker, OrderRecord
  <2>3. TypeOfThreads'
    BY <1>3 DEF InsertFails, TypeOfThreads
  <2>4. QED
    BY <1>3, <1>b, <1>d, <2>2, <2>3 DEF InsertFails
<1>4. CASE EraseFailedInsert
  <2>1. main.ref \in Refs /\ order[main.ref].client \in Clients \union {NoClient}
    BY <1>4 DEF EraseFailedInsert, TypeOfThreads, TypeOfBroker, OrderRecord
  <2>2. TypeOfGateway'
    BY <1>4, <1>e, <2>1 DEF EraseFailedInsert
  <2>3. TypeOfThreads'
    BY <1>4 DEF EraseFailedInsert, TypeOfThreads
  <2>4. QED
    BY <1>4, <1>a, <1>d, <2>2, <2>3 DEF EraseFailedInsert
<1>5. CASE PushSubmitted
  <2>1. [ref |-> main.ref, client |-> order[main.ref].client, status |-> "Submitted", filled |-> 0] \in Event
    BY <1>5 DEF PushSubmitted, Event, Status, TypeOfBroker, TypeOfThreads, OrderRecord
  <2>2. pendingEvents' \in Seq(Event)
    BY <1>5, <2>1 DEF PushSubmitted, PushEvent, TypeOfThreads
  <2>3. TypeOfThreads'
    BY <1>5, <2>2 DEF PushSubmitted, TypeOfThreads
  <2>4. QED
    BY <1>5, <1>a, <1>b, <1>d, <2>3 DEF PushSubmitted
<1>6. ASSUME NEW c \in Clients, CancelOrder(c) PROVE TypeOK'
  <2>1. clientIdToOrderRef[c] \in Refs
    BY <1>6 DEF CancelOrder, TypeOfGateway
  <2>2. TypeOfBroker'
    BY <1>6, <2>1 DEF CancelOrder, TypeOfBroker
  <2>3. QED
    BY <1>6, <1>b, <1>c, <1>d, <2>2 DEF CancelOrder
<1>7. CASE DrainOrderEvents
  <2>1. TypeOfThreads'
    BY <1>7 DEF DrainOrderEvents, TypeOfThreads, mainVars
  <2>2. QED
    BY <1>7, <1>a, <1>b, <1>d, <2>1 DEF DrainOrderEvents
<1>8. CASE ApplyLiveOrderEvent
  <2> DEFINE e == Head(batch)
  <2>1. e \in Event /\ Tail(batch) \in Seq(Event)
    BY <1>8, TailShifts DEF ApplyLiveOrderEvent, TypeOfThreads
  <2>2. e.ref \in Refs /\ e.client \in Clients \union {NoClient} /\ e.filled \in Nat
    BY <2>1 DEF Event
  <2>3. FillDelta(e) \in Nat
    BY <2>2 DEF FillDelta, MaxOf, AppliedBefore, TypeOfBooks
  <2>4. appliedByClient' \in [Clients -> Nat] /\ appliedByRef' \in [Refs -> Nat]
    <3> DEFINE delta == FillDelta(e)
    <3>1. /\ e.client # NoClient => /\ appliedByClient' = [appliedByClient EXCEPT ![e.client] = @ + delta]
                                   /\ appliedByRef' = appliedByRef
          /\ e.client = NoClient => /\ appliedByRef' = [appliedByRef EXCEPT ![e.ref] = @ + delta]
                                   /\ appliedByClient' = appliedByClient
      BY <1>8 DEF ApplyLiveOrderEvent
    <3>2. delta \in Nat
      BY <2>3
    <3> HIDE DEF delta, e
    <3>3. QED
      BY <2>2, <3>1, <3>2 DEF TypeOfBooks
  <2>5. \A lots \in Int, offset \in Offsets : LotsAfter(lots, offset, FillDelta(e)) \in Int
    BY <2>3 DEF LotsAfter, MinOf
  <2>6. order[e.ref].offset \in Offsets
    BY <2>2 DEF TypeOfBroker, OrderRecord
  <2>7. accountLots' \in Int /\ attachmentLots' \in [Strategies -> Int]
    BY <1>8, <2>5, <2>6 DEF ApplyLiveOrderEvent, TypeOfBooks
  <2>8. opened' \subseteq Refs /\ closed' \in [Refs -> Nat]
    BY <1>8, <2>2 DEF ApplyLiveOrderEvent, TypeOfBooks
  <2>9. TypeOfThreads'
    BY <1>8, <2>1 DEF ApplyLiveOrderEvent, TypeOfThreads, mainVars
  <2>10. QED
    BY <1>8, <1>a, <1>b, <2>4, <2>7, <2>8, <2>9 DEF ApplyLiveOrderEvent, TypeOfBooks
<1>9. CASE OnRspOrderInsert
  <2>1. Head(feed) \in FeedMessage /\ Tail(feed) \in Seq(FeedMessage)
    BY <1>9, TailShifts DEF OnRspOrderInsert, Incoming, TypeOfBroker
  <2>2. [ref |-> Head(feed).ref, client |-> orderToClientId[Head(feed).ref],
         status |-> "Rejected", filled |-> 0] \in Event
    BY <2>1 DEF Event, FeedMessage, Status, TypeOfGateway
  <2>3. TypeOfBroker'
    BY <1>9, <2>1 DEF OnRspOrderInsert, TypeOfBroker
  <2>4. TypeOfThreads'
    BY <1>9, <2>2 DEF OnRspOrderInsert, StartPush, TypeOfThreads, mainVars
  <2>5. QED
    BY <1>9, <1>b, <1>d, <2>3, <2>4 DEF OnRspOrderInsert
<1>10. CASE OnRtnOrder
  <2> DEFINE m == Head(feed)
             e == [ref |-> m.ref, client |-> orderToClientId[m.ref], status |-> m.status, filled |-> 0]
  <2>1. m \in FeedMessage /\ Tail(feed) \in Seq(FeedMessage)
    BY <1>10, TailShifts DEF OnRtnOrder, Incoming, TypeOfBroker
  <2>2. m.ref \in Refs /\ e \in Event
    BY <2>1 DEF Event, FeedMessage, TypeOfGateway
  <2>3. order[m.ref].volume \in 0..MaxVolume
    BY <2>2 DEF TypeOfBroker, OrderRecord
  <2>4. TypeOfBroker'
    BY <1>10, <2>1 DEF OnRtnOrder, TypeOfBroker
  <2>5. TypeOfGateway'
    BY <1>10, <2>2, <2>3 DEF OnRtnOrder, TypeOfGateway
  <2>6. UNCHANGED spi \/ spi' = [pc |-> "push", event |-> e]
    BY <1>10 DEF OnRtnOrder, StartPush
  <2>7. TypeOfThreads'
    BY <1>10, <2>2, <2>6 DEF OnRtnOrder, TypeOfThreads, mainVars
  <2>8. QED
    BY <1>10, <1>d, <2>4, <2>5, <2>7 DEF OnRtnOrder
<1>11. CASE OnRtnTrade
  <2> DEFINE m == Head(feed)
             cumulative == cumulativeTradeVolume[m.ref] + m.volume
             e == [ref |-> m.ref, client |-> orderToClientId[m.ref], filled |-> cumulative,
                   status |-> IF OrderFilled(cumulative, requestedVolume[m.ref], m.volume)
                              THEN "Filled" ELSE "PartiallyFilled"]
  <2>1. m \in FeedMessage /\ Tail(feed) \in Seq(FeedMessage)
    BY <1>11, TailShifts DEF OnRtnTrade, Incoming, TypeOfBroker
  <2>2. m.ref \in Refs /\ cumulative \in Nat
    BY <2>1 DEF FeedMessage, TypeOfGateway
  <2>3. e \in Event
    BY <2>2 DEF Event, Status, TypeOfGateway
  <2>4. TypeOfBroker'
    BY <1>11, <2>1 DEF OnRtnTrade, TypeOfBroker
  <2>5. TypeOfGateway'
    BY <1>11, <2>2 DEF OnRtnTrade, TypeOfGateway
  <2>6. spi' = [pc |-> "push", event |-> e]
    BY <1>11 DEF OnRtnTrade, StartPush
  <2>7. TypeOfThreads'
    BY <1>11, <2>3, <2>6 DEF OnRtnTrade, TypeOfThreads, mainVars
  <2>8. QED
    BY <1>11, <1>d, <2>4, <2>5, <2>7 DEF OnRtnTrade
<1>12. CASE PushSpiEvent
  <2>1. spi.event \in Event
    BY <1>12 DEF PushSpiEvent, TypeOfThreads
  <2>2. pendingEvents' \in Seq(Event)
    BY <1>12, <2>1 DEF PushSpiEvent, PushEvent, TypeOfThreads
  <2>3. spi' = NoCallback \/ spi' = [spi EXCEPT !.pc = "erase"]
    BY <1>12 DEF PushSpiEvent
  <2>4. /\ spi' \in [pc : {"idle", "push", "erase"}, event : Event \union {NoEvent}]
        /\ spi'.pc # "idle" => spi'.event \in Event
    BY <2>1, <2>3 DEF NoCallback, TypeOfThreads
  <2>5. TypeOfThreads'
    BY <1>12, <2>2, <2>4 DEF PushSpiEvent, TypeOfThreads, mainVars
  <2>6. QED
    BY <1>12, <1>a, <1>b, <1>d, <2>5 DEF PushSpiEvent
<1>13. CASE EraseTerminal
  <2>1. spi.event.ref \in Refs /\ spi.event.client \in Clients \union {NoClient}
    BY <1>13 DEF EraseTerminal, TypeOfThreads, Event
  <2>2. TypeOfGateway'
    BY <1>13, <1>e, <2>1 DEF EraseTerminal
  <2>3. TypeOfThreads'
    BY <1>13 DEF EraseTerminal, TypeOfThreads, NoCallback, mainVars
  <2>4. QED
    BY <1>13, <1>a, <1>d, <2>2, <2>3 DEF EraseTerminal
<1>14. ASSUME NEW r \in Refs, BrokerAccepts(r) PROVE TypeOK'
  <2>1. Message("RtnOrder", r, "Accepted", 0, 0) \in FeedMessage
    BY DEF Message, FeedMessage, Status
  <2>2. feed' \in Seq(FeedMessage)
    BY <1>14, <2>1, AppendOne DEF BrokerAccepts, BrokerStep, TypeOfBroker
  <2>3. order[r].volume \in 0..MaxVolume /\ order' \in [Refs -> OrderRecord]
    BY <1>14 DEF BrokerAccepts, BrokerStep, OrderRecord, TypeOfBroker
  <2>4. TypeOfBroker'
    BY <1>14, <2>2, <2>3 DEF BrokerAccepts, TypeOfBroker
  <2>5. QED
    BY <1>14, <1>b, <1>c, <1>d, <2>4 DEF BrokerAccepts, BrokerStep
<1>15. ASSUME NEW r \in Refs, BrokerRefuses(r) PROVE TypeOK'
  <2>1. Message("RspOrderInsert", r, "Rejected", 0, 0) \in FeedMessage
    BY DEF Message, FeedMessage, Status
  <2>2. feed' \in Seq(FeedMessage)
    BY <1>15, <2>1, AppendTwo DEF BrokerRefuses, BrokerStep, TypeOfBroker
  <2>3. order' \in [Refs -> OrderRecord]
    BY <1>15 DEF BrokerRefuses, BrokerStep, OrderRecord, TypeOfBroker
  <2>4. TypeOfBroker'
    BY <1>15, <2>2, <2>3 DEF BrokerRefuses, TypeOfBroker
  <2>5. QED
    BY <1>15, <1>b, <1>c, <1>d, <2>4 DEF BrokerRefuses, BrokerStep
<1>16. ASSUME NEW r \in Refs, NEW volume \in 1..MaxVolume, BrokerTrades(r, volume) PROVE TypeOK'
  <2> DEFINE total == order[r].traded + volume
             status == IF total = order[r].volume THEN "Filled" ELSE "PartiallyFilled"
             report == Message("RtnOrder", r, status, 0, total)
             trade == Message("RtnTrade", r, "Accepted", volume, total)
  <2>1. total \in 0..MaxVolume
    BY <1>16 DEF BrokerTrades, OrderRecord, TypeOfBroker
  <2>2. report \in FeedMessage /\ trade \in FeedMessage
    BY <2>1 DEF Message, FeedMessage, Status
  <2>3. feed' \in Seq(FeedMessage)
    <3>1. feed' = feed \o <<report, trade>>
      BY <1>16 DEF BrokerTrades
    <3> HIDE DEF report, trade
    <3>2. QED
      BY <2>2, <3>1, AppendTwo DEF TypeOfBroker
  <2>4. order' \in [Refs -> OrderRecord]
    <3> DEFINE state == IF total = order[r].volume THEN "done" ELSE "working"
    <3>1. order' = [order EXCEPT ![r] = [@ EXCEPT !.traded = total, !.state = state]]
      BY <1>16 DEF BrokerTrades, TypeOfBroker
    <3> HIDE DEF total
    <3>2. order[r] \in OrderRecord
      BY DEF TypeOfBroker
    <3>3. [order[r] EXCEPT !.traded = total, !.state = state] \in OrderRecord
      BY <2>1, <3>2 DEF OrderRecord
    <3>4. QED
      BY <3>1, <3>3 DEF TypeOfBroker
  <2>5. available' \in Int /\ cancelAsked' \subseteq Refs
    BY <1>16 DEF BrokerTrades, TypeOfBroker
  <2>6. TypeOfBroker'
    BY <2>3, <2>4, <2>5 DEF TypeOfBroker
  <2>7. QED
    BY <1>16, <1>b, <1>c, <1>d, <2>6 DEF BrokerTrades
<1>17. ASSUME NEW r \in Refs, BrokerCancels(r) PROVE TypeOK'
  <2>1. order[r].traded \in 0..MaxVolume /\ order[r].volume \in 0..MaxVolume
    BY DEF OrderRecord, TypeOfBroker
  <2>2. Message("RtnOrder", r, "Cancelled", 0, order[r].traded) \in FeedMessage
    BY <2>1 DEF Message, FeedMessage, Status
  <2>3. feed' \in Seq(FeedMessage)
    BY <1>17, <2>2, AppendOne DEF BrokerCancels, BrokerStep, TypeOfBroker
  <2>4. order' \in [Refs -> OrderRecord]
    BY <1>17 DEF BrokerCancels, BrokerStep, OrderRecord, TypeOfBroker
  <2>5. available' \in Int
    BY <1>17, <2>1 DEF BrokerCancels, TypeOfBroker
  <2>6. TypeOfBroker'
    BY <1>17, <2>3, <2>4, <2>5 DEF BrokerCancels, TypeOfBroker
  <2>7. QED
    BY <1>17, <1>b, <1>c, <1>d, <2>6 DEF BrokerCancels, BrokerStep
<1>18. CASE UNCHANGED vars
  BY <1>18, <1>a, <1>b, <1>c, <1>d DEF vars
<1>19. QED
  BY <1>1, <1>2, <1>3, <1>4, <1>5, <1>6, <1>7, <1>8, <1>9, <1>10, <1>11, <1>12, <1>13, <1>14,
     <1>15, <1>16, <1>17, <1>18
     DEF Next, Submission, EventLoop, Callback, Strategy, Broker

-----------------------------------------------------------------------------
(* What the type invariant says of the parts of orders, messages and events.*)
LEMMA OrdersTyped ==
    ASSUME TypeOK, NEW r \in Refs
    PROVE  /\ order[r].client \in Clients \union {NoClient}
           /\ order[r].volume \in Nat /\ order[r].traded \in Nat
           /\ cumulativeTradeVolume[r] \in Nat
           /\ orderToClientId[r] \in Clients \union {NoClient}
  BY MaxVolumeAssumption DEF TypeOK, TypeOfBroker, TypeOfGateway, OrderRecord

LEMMA MessagesTyped ==
    ASSUME TypeOK
    PROVE  /\ Len(feed) \in Nat
           /\ \A i \in 1..Len(feed) : /\ feed[i].ref \in Refs
                                      /\ feed[i].volume \in Nat /\ feed[i].traded \in Nat
<1>1. feed \in Seq(FeedMessage)
  BY DEF TypeOK, TypeOfBroker
<1>2. Len(feed) \in Nat /\ \A i \in 1..Len(feed) : feed[i] \in FeedMessage
  BY <1>1
<1>3. \A m \in FeedMessage : m.ref \in Refs /\ m.volume \in Nat /\ m.traded \in Nat
  BY MaxVolumeAssumption DEF FeedMessage
<1>4. QED
  BY <1>2, <1>3

LEMMA EventsTyped ==
    ASSUME TypeOK
    PROVE  /\ Len(pendingEvents) \in Nat /\ Len(batch) \in Nat
           /\ \A i \in 1..Len(pendingEvents) : pendingEvents[i] \in Event
           /\ \A i \in 1..Len(batch) : batch[i] \in Event
           /\ \A e \in Event : /\ e.ref \in Refs /\ e.filled \in Nat
                               /\ e.client \in Clients \union {NoClient}
<1>1. pendingEvents \in Seq(Event) /\ batch \in Seq(Event)
  BY DEF TypeOK, TypeOfThreads
<1>2. \A e \in Event : e.ref \in Refs /\ e.filled \in Nat /\ e.client \in Clients \union {NoClient}
  BY DEF Event
<1>3. QED
  BY <1>1, <1>2

(* An order with nothing traded has no trade report on its way.            *)
LEMMA NoTradeNoReport ==
    ASSUME TypeOK, TradesInOrder, NEW r \in Refs, order[r].traded = 0
    PROVE  \A i \in 1..Len(feed) : ~ IsTrade(i, r)
  BY OrdersTyped, MessagesTyped DEF TradesInOrder, IsTrade

(* A step that only moves an order from one state to another.              *)
LEMMA StateMoves ==
    ASSUME TypeOK, NEW r \in Refs, NEW to, order' = [order EXCEPT ![r].state = to]
    PROVE  /\ \A q \in Refs : /\ order'[q].client = order[q].client
                              /\ order'[q].volume = order[q].volume
                              /\ order'[q].traded = order[q].traded
                              /\ q # r => order'[q] = order[q]
           /\ order'[r].state = to
  BY DEF TypeOK, TypeOfBroker, OrderRecord

(* The four moves the code and the broker make keep what depends on the    *)
(* state of an order only through "new" and "working" orders being live.   *)
LEMMA MovesKeepOrders ==
    ASSUME IndInv, NEW r \in Refs, NEW to, order' = [order EXCEPT ![r].state = to],
           \/ order[r].state = "new" /\ to \in {"sent", "failed"}
           \/ order[r].state = "sent" /\ to \in {"working", "done"}
           \/ order[r].state = "working" /\ to = "done",
           UNCHANGED <<gatewayMaps, orderRefSequence, nextClientId, batch, books>>
    PROVE  /\ RefsInOrder' /\ ClientsAreFresh' /\ BrokerCounts' /\ MapsAgree' /\ TableIsBehind'
           /\ \A e \in Event : Credible(e) => Credible(e)'
<1> USE DEF IndInv
<1>1. /\ \A q \in Refs : /\ order'[q].client = order[q].client
                         /\ order'[q].volume = order[q].volume
                         /\ order'[q].traded = order[q].traded
                         /\ q # r => order'[q] = order[q]
      /\ order'[r].state = to
  BY StateMoves
<1>2. order[r].state # "free" /\ order[r] # NoOrder
  BY DEF NoOrder
<1>3. RefsInOrder'
  BY <1>1, <1>2 DEF RefsInOrder
<1>4. ClientsAreFresh'
  BY <1>1 DEF ClientsAreFresh, books
<1>5. BrokerCounts'
  BY <1>1, OrdersTyped DEF BrokerCounts
<1>6. MapsAgree'
  BY <1>1 DEF MapsAgree, gatewayMaps
<1>7. TableIsBehind'
  BY <1>1 DEF TableIsBehind, books
<1>8. \A e \in Event : Credible(e) => Credible(e)'
  BY <1>1, EventsTyped DEF Credible
<1>9. QED
  BY <1>3, <1>4, <1>5, <1>6, <1>7, <1>8

(* ... and, with the feed as it was, the reports on their way.             *)
LEMMA MovesKeepReports ==
    ASSUME IndInv, NEW r \in Refs, NEW to, order' = [order EXCEPT ![r].state = to],
           order[r].state # "done", UNCHANGED <<feed, gatewayMaps, spi>>
    PROVE  TradesInOrder' /\ EndsComeLast' /\ ErasureIsFinal'
<1> USE DEF IndInv
<1>1. /\ \A q \in Refs : /\ order'[q].traded = order[q].traded
                         /\ q # r => order'[q] = order[q]
      /\ order'[r].state = to
  BY StateMoves
<1>2. \A q \in Refs : order[q].state = "done" => order'[q].state = "done"
  BY <1>1
<1>3. \A i \in 1..Len(feed) : feed[i].ref \in Refs
  BY MessagesTyped
<1>4. TradesInOrder'
  BY <1>1 DEF TradesInOrder, IsTrade, gatewayMaps
<1>5. EndsComeLast'
  BY <1>1, <1>2, <1>3 DEF EndsComeLast, NothingFollows, IsTrade
<1>6. spi.pc # "idle" => spi.event.ref \in Refs
  BY EventsTyped DEF TypeOK, TypeOfThreads
<1>7. ErasureIsFinal'
  BY <1>2, <1>6 DEF ErasureIsFinal, IsTrade
<1>8. QED
  BY <1>4, <1>5, <1>7

(* The order is handed to the broker, or is not.                           *)
LEMMA InsertKeeps ==
    ASSUME IndInv, TypeOK', (\E ioc \in BOOLEAN : InsertSent(ioc)) \/ InsertFails
    PROVE  IndInv'
<1> USE DEF IndInv
<1>1. main.pc = "insert" /\ main.ref \in Refs /\ order[main.ref].state = "new"
  BY DEF InsertSent, InsertFails, TypeOK, TypeOfThreads, SubmissionAnswerable
<1>2. PICK state \in {"sent", "failed"} :
          /\ order' = [order EXCEPT ![main.ref].state = state]
          /\ main'.ref = main.ref
          /\ \/ state = "sent" /\ main'.pc = "push"
             \/ state = "failed" /\ main'.pc = "erase"
  BY DEF InsertSent, InsertFails, TypeOK, TypeOfThreads
<1>3. UNCHANGED <<feed, gatewayMaps, pendingEvents, spi, orderRefSequence, nextClientId, batch, books>>
  BY DEF InsertSent, InsertFails
<1>4. /\ RefsInOrder' /\ ClientsAreFresh' /\ BrokerCounts' /\ MapsAgree' /\ TableIsBehind'
      /\ \A e \in Event : Credible(e) => Credible(e)'
  BY <1>1, <1>2, <1>3, MovesKeepOrders
<1>5. TradesInOrder' /\ EndsComeLast' /\ ErasureIsFinal'
  BY <1>1, <1>2, <1>3, MovesKeepReports
<1>6. SubmissionAnswerable'
  <2>1. order'[main.ref].client = order[main.ref].client /\ order'[main.ref].state \in {"sent", "failed"}
    BY <1>1, <1>2, StateMoves
  <2>2. main'.pc = "erase" => order'[main.ref].state = "failed"
    BY <1>1, <1>2, StateMoves
  <2>3. main'.pc \in {"push", "erase"} /\ main'.ref = main.ref
    BY <1>2
  <2>4. QED
    BY <1>1, <2>1, <2>2, <2>3 DEF SubmissionAnswerable
<1>7. EventsAreCredible'
  BY <1>3, <1>4, EventsTyped DEF EventsAreCredible, TypeOK, TypeOfThreads
<1>8. QED
  BY <1>4, <1>5, <1>6, <1>7

-----------------------------------------------------------------------------
(* The broker answers.                                                     *)

\* What a move of the broker leaves of the parts that do not read the feed.
LEMMA BrokerMoveKeeps ==
    ASSUME IndInv, NEW r \in Refs, NEW to,
           \/ order[r].state = "sent" /\ to \in {"working", "done"}
           \/ order[r].state = "working" /\ to = "done",
           order' = [order EXCEPT ![r].state = to],
           UNCHANGED <<gatewayMaps, pendingEvents, spi, mainVars, batch, books>>
    PROVE  /\ RefsInOrder' /\ ClientsAreFresh' /\ BrokerCounts' /\ MapsAgree' /\ TableIsBehind'
           /\ SubmissionAnswerable' /\ EventsAreCredible'
<1> USE DEF IndInv
<1>1. /\ RefsInOrder' /\ ClientsAreFresh' /\ BrokerCounts' /\ MapsAgree' /\ TableIsBehind'
      /\ \A e \in Event : Credible(e) => Credible(e)'
  BY MovesKeepOrders DEF mainVars
<1>2. /\ main.pc # "idle" => main.ref \in Refs
      /\ \A q \in Refs : order'[q].client = order[q].client /\ (q # r => order'[q] = order[q])
  BY StateMoves DEF TypeOK, TypeOfThreads
<1>3. main' = main
  BY DEF mainVars
<1>4. SubmissionAnswerable'
  BY <1>2, <1>3 DEF SubmissionAnswerable
<1>5. EventsAreCredible'
  BY <1>1, EventsTyped DEF EventsAreCredible, TypeOK, TypeOfThreads
<1>6. QED
  BY <1>1, <1>4, <1>5

\* Messages that carry no trade may follow those on their way.
LEMMA AnswersKeepReports ==
    ASSUME IndInv, NEW r \in Refs, NEW to, order' = [order EXCEPT ![r].state = to],
           order[r].state # "done", UNCHANGED <<gatewayMaps, spi>>,
           feed' \in Seq(FeedMessage), Len(feed') >= Len(feed),
           \A i \in 1..Len(feed) : feed'[i] = feed[i],
           \A i \in (Len(feed) + 1)..Len(feed') :
               /\ feed'[i].ref = r /\ feed'[i].kind # "RtnTrade"
               /\ feed'[i].kind = "RspOrderInsert" => to = "done" /\ order[r].traded = 0
               /\ feed'[i].kind = "RtnOrder" => /\ ~ IsFillStatus(feed'[i].status)
                                                /\ IsTerminalStatus(feed'[i].status) => to = "done"
    PROVE  TradesInOrder' /\ EndsComeLast' /\ ErasureIsFinal'
<1> USE DEF IndInv
<1>1. /\ \A q \in Refs : /\ order'[q].traded = order[q].traded
                         /\ q # r => order'[q] = order[q]
      /\ order'[r].state = to
  BY StateMoves
<1>2. \A q \in Refs : order[q].state = "done" => order'[q].state = "done"
  BY <1>1
<1>3. Len(feed) \in Nat /\ Len(feed') \in Nat /\ \A i \in 1..Len(feed) : feed[i].ref \in Refs
  BY MessagesTyped
<1>4. \A i \in 1..Len(feed') : i \in 1..Len(feed) \/ i \in (Len(feed) + 1)..Len(feed')
  BY <1>3
<1>5. \A i \in 1..Len(feed') : \A q \in Refs : IsTrade(i, q)' => IsTrade(i, q) /\ feed'[i] = feed[i]
  BY <1>3, <1>4 DEF IsTrade
<1>6. TradesInOrder'
  <2>1. UNCHANGED <<cumulativeTradeVolume, orderToClientId>>
    BY DEF gatewayMaps
  <2>2. \A i \in 1..Len(feed') : \A q \in Refs : IsTrade(i, q)' => i \in 1..Len(feed)
    BY <1>5 DEF IsTrade
  <2>3. QED
    BY <1>1, <1>5, <2>1, <2>2 DEF TradesInOrder
<1>7. EndsComeLast'
  <2>1. SUFFICES ASSUME NEW i \in 1..Len(feed') PROVE NothingFollows(i)'
    BY DEF EndsComeLast
  <2>2. CASE i \in 1..Len(feed)
    <3>1. feed'[i] = feed[i] /\ feed[i].ref \in Refs
      BY <1>3, <2>2
    <3>2. \A j \in 1..Len(feed') : IsTrade(j, feed[i].ref)' => j \in 1..Len(feed) /\ IsTrade(j, feed[i].ref)
      BY <1>5, <3>1 DEF IsTrade
    <3>3. NothingFollows(i)
      BY <2>2 DEF EndsComeLast
    <3>4. QED
      BY <1>1, <1>2, <3>1, <3>2, <3>3 DEF NothingFollows
  <2>3. CASE i \in (Len(feed) + 1)..Len(feed')
    <3>1. \A j \in 1..Len(feed') : j > i => ~ IsTrade(j, r)'
      BY <1>3, <1>5, <2>3 DEF IsTrade
    <3>2. feed'[i].ref = r
      BY <2>3
    <3>3. \A j \in 1..Len(feed') : j > i => ~ IsTrade(j, feed[i].ref)'
      BY <3>1, <3>2 DEF IsTrade
    <3>4. QED
      BY <1>1, <2>3, <3>2, <3>3 DEF NothingFollows
  <2>4. QED
    BY <1>4, <2>2, <2>3
<1>8. ErasureIsFinal'
  <2>1. spi.pc # "idle" => spi.event.ref \in Refs
    BY EventsTyped DEF TypeOK, TypeOfThreads
  <2>2. \A i \in 1..Len(feed') : \A q \in Refs : IsTrade(i, q)' => i \in 1..Len(feed) /\ IsTrade(i, q)
    BY <1>5 DEF IsTrade
  <2>3. QED
    BY <1>2, <2>1, <2>2 DEF ErasureIsFinal
<1>9. QED
  BY <1>6, <1>7, <1>8

LEMMA BrokerAnswerKeeps ==
    ASSUME IndInv, TypeOK', NEW r \in Refs,
           BrokerAccepts(r) \/ BrokerRefuses(r) \/ BrokerCancels(r)
    PROVE  IndInv'
<1> USE MaxVolumeAssumption DEF IndInv
<1>0. feed \in Seq(FeedMessage) /\ feed' \in Seq(FeedMessage) /\ Len(feed) \in Nat
  BY DEF TypeOK, TypeOfBroker
<1>1. CASE BrokerAccepts(r)
  <2> DEFINE m == Message("RtnOrder", r, "Accepted", 0, 0)
  <2>1. /\ order[r].state = "sent" /\ order' = [order EXCEPT ![r].state = "working"]
        /\ feed' = feed \o <<m>>
        /\ UNCHANGED <<gatewayMaps, pendingEvents, spi, mainVars, batch, books>>
    BY <1>1 DEF BrokerAccepts, BrokerStep
  <2>2. m \in FeedMessage /\ m.ref = r /\ m.kind = "RtnOrder" /\ m.status = "Accepted"
    BY DEF Message, FeedMessage, Status
  <2> HIDE DEF m
  <2>3. /\ Len(feed') = Len(feed) + 1 /\ feed'[Len(feed) + 1] = m
        /\ \A i \in 1..Len(feed) : feed'[i] = feed[i]
    BY <1>0, <2>1, <2>2, AppendOne
  <2>4. \A i \in (Len(feed) + 1)..Len(feed') :
          /\ feed'[i].ref = r /\ feed'[i].kind # "RtnTrade"
          /\ feed'[i].kind = "RspOrderInsert" => "working" = "done" /\ order[r].traded = 0
          /\ feed'[i].kind = "RtnOrder" => /\ ~ IsFillStatus(feed'[i].status)
                                           /\ IsTerminalStatus(feed'[i].status) => "working" = "done"
    BY <1>0, <2>2, <2>3 DEF IsFillStatus, IsTerminalStatus
  <2>5. TradesInOrder' /\ EndsComeLast' /\ ErasureIsFinal'
    <3>1. order[r].state # "done" /\ UNCHANGED <<gatewayMaps, spi>> /\ Len(feed') >= Len(feed)
      BY <1>0, <2>1, <2>3
    <3>2. order' = [order EXCEPT ![r].state = "working"]
      BY <2>1
    <3> HIDE DEF IndInv
    <3>3. QED
      BY <1>0, <3>1, <3>2, <2>3, <2>4, AnswersKeepReports, Zenon
  <2>6. QED
    BY <2>1, <2>5, BrokerMoveKeeps
<1>2. CASE BrokerRefuses(r)
  <2> DEFINE m == Message("RspOrderInsert", r, "Rejected", 0, 0)
  <2>1. /\ order[r].state = "sent" /\ order' = [order EXCEPT ![r].state = "done"]
        /\ feed' = feed \o <<m, m>>
        /\ UNCHANGED <<gatewayMaps, pendingEvents, spi, mainVars, batch, books>>
    BY <1>2 DEF BrokerRefuses, BrokerStep
  <2>2. m \in FeedMessage /\ m.ref = r /\ m.kind = "RspOrderInsert"
    BY DEF Message, FeedMessage, Status
  <2> HIDE DEF m
  <2>3. /\ Len(feed') = Len(feed) + 2 /\ feed'[Len(feed) + 1] = m /\ feed'[Len(feed) + 2] = m
        /\ \A i \in 1..Len(feed) : feed'[i] = feed[i]
    BY <1>0, <2>1, <2>2, AppendTwo
  <2>4. order[r].traded = 0
    BY <2>1 DEF BrokerCounts
  <2>5. \A i \in (Len(feed) + 1)..Len(feed') :
          /\ feed'[i].ref = r /\ feed'[i].kind # "RtnTrade"
          /\ feed'[i].kind = "RspOrderInsert" => "done" = "done" /\ order[r].traded = 0
          /\ feed'[i].kind = "RtnOrder" => /\ ~ IsFillStatus(feed'[i].status)
                                           /\ IsTerminalStatus(feed'[i].status) => "done" = "done"
    BY <1>0, <2>2, <2>3, <2>4
  <2>6. TradesInOrder' /\ EndsComeLast' /\ ErasureIsFinal'
    <3>1. order[r].state # "done" /\ UNCHANGED <<gatewayMaps, spi>> /\ Len(feed') >= Len(feed)
      BY <1>0, <2>1, <2>3
    <3>2. order' = [order EXCEPT ![r].state = "done"]
      BY <2>1
    <3> HIDE DEF IndInv
    <3>3. QED
      BY <1>0, <3>1, <3>2, <2>3, <2>5, AnswersKeepReports, Zenon
  <2>7. QED
    BY <2>1, <2>6, BrokerMoveKeeps
<1>3. CASE BrokerCancels(r)
  <2> DEFINE m == Message("RtnOrder", r, "Cancelled", 0, order[r].traded)
  <2>1. /\ order[r].state = "working" /\ order' = [order EXCEPT ![r].state = "done"]
        /\ feed' = feed \o <<m>>
        /\ UNCHANGED <<gatewayMaps, pendingEvents, spi, mainVars, batch, books>>
    BY <1>3 DEF BrokerCancels, BrokerStep
  <2>2. m.ref = r /\ m.kind = "RtnOrder" /\ m.status = "Cancelled"
    BY DEF Message
  <2>3. m \in FeedMessage
    BY OrdersTyped DEF Message, FeedMessage, Status, TypeOK, TypeOfBroker, OrderRecord
  <2> HIDE DEF m
  <2>4. /\ Len(feed') = Len(feed) + 1 /\ feed'[Len(feed) + 1] = m
        /\ \A i \in 1..Len(feed) : feed'[i] = feed[i]
    BY <1>0, <2>1, <2>3, AppendOne
  <2>5. \A i \in (Len(feed) + 1)..Len(feed') :
          /\ feed'[i].ref = r /\ feed'[i].kind # "RtnTrade"
          /\ feed'[i].kind = "RspOrderInsert" => "done" = "done" /\ order[r].traded = 0
          /\ feed'[i].kind = "RtnOrder" => /\ ~ IsFillStatus(feed'[i].status)
                                           /\ IsTerminalStatus(feed'[i].status) => "done" = "done"
    BY <1>0, <2>2, <2>4 DEF IsFillStatus
  <2>6. TradesInOrder' /\ EndsComeLast' /\ ErasureIsFinal'
    <3>1. order[r].state # "done" /\ UNCHANGED <<gatewayMaps, spi>> /\ Len(feed') >= Len(feed)
      BY <1>0, <2>1, <2>4
    <3>2. order' = [order EXCEPT ![r].state = "done"]
      BY <2>1
    <3> HIDE DEF IndInv
    <3>3. QED
      BY <1>0, <3>1, <3>2, <2>4, <2>5, AnswersKeepReports, Zenon
  <2>7. QED
    BY <2>1, <2>6, BrokerMoveKeeps
<1>4. QED
  BY <1>1, <1>2, <1>3

(* A trade adds the same lots to the order and to the reports behind it.   *)
LEMMA BrokerTradeKeeps ==
    ASSUME IndInv, TypeOK', NEW r \in Refs, NEW volume \in 1..MaxVolume, BrokerTrades(r, volume)
    PROVE  IndInv'
<1> USE MaxVolumeAssumption DEF IndInv
<1> DEFINE total  == order[r].traded + volume
           to     == IF total = order[r].volume THEN "done" ELSE "working"
           status == IF total = order[r].volume THEN "Filled" ELSE "PartiallyFilled"
           report == Message("RtnOrder", r, status, 0, total)
           trade  == Message("RtnTrade", r, "Accepted", volume, total)
<1>1. order[r].state = "working" /\ total <= order[r].volume /\ volume \in Nat /\ volume > 0
  BY DEF BrokerTrades
<1>2. UNCHANGED <<gatewayMaps, pendingEvents, spi, mainVars, batch, books>>
  BY DEF BrokerTrades
<1>3. /\ \A q \in Refs : /\ order'[q].client = order[q].client
                         /\ order'[q].volume = order[q].volume
                         /\ order'[q].traded = IF q = r THEN total ELSE order[q].traded
                         /\ q # r => order'[q] = order[q]
      /\ order'[r].state = to
  <2>1. order' = [order EXCEPT ![r].traded = total, ![r].state = to]
    BY DEF BrokerTrades
  <2>2. QED
    BY <2>1 DEF TypeOK, TypeOfBroker, OrderRecord
<1>4. /\ Len(feed) \in Nat /\ Len(feed') = Len(feed) + 2
      /\ feed'[Len(feed) + 1] = report /\ feed'[Len(feed) + 2] = trade
      /\ \A i \in 1..Len(feed) : feed'[i] = feed[i]
  <2>1. total \in 0..MaxVolume
    BY <1>1, OrdersTyped DEF TypeOK, TypeOfBroker, OrderRecord
  <2>2. report \in FeedMessage /\ trade \in FeedMessage
    BY <2>1 DEF Message, FeedMessage, Status
  <2>3. feed' = feed \o <<report, trade>>
    BY DEF BrokerTrades
  <2>4. feed \in Seq(FeedMessage)
    BY DEF TypeOK, TypeOfBroker
  <2> HIDE DEF report, trade
  <2>5. QED
    BY <2>2, <2>3, <2>4, AppendTwo
<1>5. /\ report.kind = "RtnOrder" /\ report.ref = r /\ report.status = status /\ report.traded = total
      /\ trade.kind = "RtnTrade" /\ trade.ref = r /\ trade.volume = volume /\ trade.traded = total
  BY DEF Message
<1>6. order[r].traded \in Nat /\ total \in Nat /\ total > 0
  BY <1>1, OrdersTyped
<1>7. IsFillStatus(status) /\ to \in {"working", "done"} /\ (to = "working" => total # order[r].volume)
  BY DEF IsFillStatus
<1> HIDE DEF report, trade, status, to
<1>8. \A q \in Refs : order[q].state = "done" => order'[q].state = "done" /\ q # r
  BY <1>1, <1>3
<1>9. RefsInOrder'
  <2>1. order[r] # NoOrder /\ orderRefSequence' = orderRefSequence /\ nextClientId' = nextClientId
    BY <1>1, <1>2 DEF NoOrder, mainVars
  <2>2. QED
    BY <1>3, <2>1 DEF RefsInOrder
<1>10. ClientsAreFresh'
  BY <1>2, <1>3 DEF ClientsAreFresh, mainVars, books
<1>11. BrokerCounts'
  BY <1>1, <1>3, <1>6, <1>7, OrdersTyped DEF BrokerCounts
<1>12. SubmissionAnswerable'
  BY <1>1, <1>2, <1>3 DEF SubmissionAnswerable, mainVars, TypeOK, TypeOfThreads
<1>13. MapsAgree'
  <2>1. UNCHANGED <<orderToClientId, requestedVolume, cumulativeTradeVolume>>
    BY <1>2 DEF gatewayMaps
  <2>2. \A q \in Refs : order'[q].state \in {"new", "sent", "working"} => order[q].state \in {"new", "sent", "working"}
    BY <1>1, <1>3
  <2>3. \A q \in Refs : cumulativeTradeVolume[q] <= order'[q].traded
    BY <1>1, <1>3, OrdersTyped DEF MapsAgree
  <2>4. QED
    BY <1>3, <2>1, <2>2, <2>3 DEF MapsAgree
<1>14. \A i \in 1..Len(feed') : \A q \in Refs : IsTrade(i, q)' =>
           \/ IsTrade(i, q) /\ feed'[i] = feed[i] /\ i <= Len(feed)
           \/ i = Len(feed) + 2 /\ q = r /\ feed'[i] = trade
  BY <1>4, <1>5 DEF IsTrade
<1>15. TradesInOrder'
  <2>1. UNCHANGED <<cumulativeTradeVolume, orderToClientId>>
    BY <1>2 DEF gatewayMaps
  <2>2. ASSUME NEW q \in Refs, NEW i \in 1..Len(feed'), IsTrade(i, q)'
        PROVE  /\ feed'[i].volume > 0
               /\ feed'[i].traded <= order'[q].traded
               /\ cumulativeTradeVolume[q] + feed'[i].volume <= feed'[i].traded
               /\ orderToClientId[q] # NoClient
    <3>1. CASE IsTrade(i, q) /\ feed'[i] = feed[i] /\ i <= Len(feed)
      <4>1. /\ feed[i].volume > 0 /\ feed[i].traded <= order[q].traded
            /\ cumulativeTradeVolume[q] + feed[i].volume <= feed[i].traded
            /\ orderToClientId[q] # NoClient
        BY <3>1 DEF TradesInOrder, IsTrade
      <4>2. feed[i].traded \in Nat /\ order[q].traded \in Nat
        BY <3>1, OrdersTyped, MessagesTyped DEF IsTrade
      <4>3. order[q].traded <= order'[q].traded
        BY <1>1, <1>3, <1>6, <4>2
      <4>4. feed[i].traded <= order'[q].traded
        BY <1>3, <1>6, <4>1, <4>2, <4>3
      <4>5. QED
        BY <3>1, <4>1, <4>4
    <3>2. CASE q = r /\ feed'[i] = trade
      BY <1>1, <1>3, <1>5, <3>2, OrdersTyped DEF MapsAgree
    <3>3. QED
      BY <1>14, <2>2, <3>1, <3>2
  <2>3. ASSUME NEW q \in Refs, NEW i \in 1..Len(feed'), NEW j \in 1..Len(feed'),
               i < j, IsTrade(i, q)', IsTrade(j, q)'
        PROVE  feed'[i].traded + feed'[j].volume <= feed'[j].traded
    <3>1. IsTrade(i, q) /\ feed'[i] = feed[i] /\ i \in 1..Len(feed)
      BY <1>4, <1>14, <2>3
    <3>2. CASE IsTrade(j, q) /\ feed'[j] = feed[j] /\ j <= Len(feed)
      BY <2>3, <3>1, <3>2 DEF TradesInOrder, IsTrade
    <3>3. CASE q = r /\ feed'[j] = trade
      <4>1. feed[i].traded <= order[r].traded /\ feed[i].traded \in Nat
        BY <3>1, <3>3, MessagesTyped DEF TradesInOrder
      <4>2. QED
        BY <1>1, <1>5, <1>6, <3>1, <3>3, <4>1
    <3>4. QED
      BY <1>14, <2>3, <3>2, <3>3
  <2>4. QED
    BY <2>1, <2>2, <2>3 DEF TradesInOrder
<1>16. EndsComeLast'
  <2>1. SUFFICES ASSUME NEW i \in 1..Len(feed') PROVE NothingFollows(i)'
    BY DEF EndsComeLast
  <2>2. CASE i \in 1..Len(feed)
    <3>1. feed'[i] = feed[i] /\ feed[i].ref \in Refs /\ NothingFollows(i)
      BY <1>4, <2>2, MessagesTyped DEF EndsComeLast
    <3>2. order[feed[i].ref].state = "done" => \A j \in 1..Len(feed') :
              IsTrade(j, feed[i].ref)' => j \in 1..Len(feed) /\ IsTrade(j, feed[i].ref)
      BY <1>8, <1>14, <3>1 DEF IsTrade
    <3>3. QED
      BY <1>3, <1>8, <3>1, <3>2 DEF NothingFollows
  <2>3. CASE i = Len(feed) + 1
    BY <1>4, <1>5, <1>6, <1>7, <2>3 DEF NothingFollows
  <2>4. CASE i = Len(feed) + 2
    BY <1>4, <1>5, <2>4 DEF NothingFollows
  <2>5. QED
    BY <1>4, <2>2, <2>3, <2>4
<1>17. EventsAreCredible'
  <2>1. \A e \in Event : Credible(e) => Credible(e)'
    BY <1>1, <1>3, EventsTyped, OrdersTyped DEF Credible
  <2>2. QED
    BY <1>2, <2>1, EventsTyped DEF EventsAreCredible, TypeOK, TypeOfThreads
<1>18. ErasureIsFinal'
  <2>1. spi.pc # "idle" => spi.event.ref \in Refs
    BY EventsTyped DEF TypeOK, TypeOfThreads
  <2>2. \A q \in Refs : q # r => \A i \in 1..Len(feed') : IsTrade(i, q)' => i \in 1..Len(feed) /\ IsTrade(i, q)
    BY <1>14 DEF IsTrade
  <2>3. QED
    BY <1>2, <1>8, <2>1, <2>2 DEF ErasureIsFinal
<1>19. TableIsBehind'
  <2>1. UNCHANGED <<appliedByClient, appliedByRef>>
    BY <1>2 DEF books
  <2>2. \A q \in Refs : order[q].client # NoClient => appliedByClient[order[q].client] \in Nat
    BY OrdersTyped DEF TypeOK, TypeOfBooks
  <2>3. QED
    BY <1>1, <1>3, <2>1, <2>2, OrdersTyped DEF TableIsBehind
<1>20. QED
  BY <1>9, <1>10, <1>11, <1>12, <1>13, <1>15, <1>16, <1>17, <1>18, <1>19

-----------------------------------------------------------------------------
(* The main thread.                                                        *)

\* A new order takes a ref and a client id nobody used.
LEMMA SubmitKeeps ==
    ASSUME IndInv, TypeOK', NEW s \in Strategies, NEW offset \in Offsets, NEW volume \in 1..MaxVolume,
           SubmitOrder(s, offset, volume)
    PROVE  IndInv'
<1> USE MaxVolumeAssumption, ClientsAreNamed DEF IndInv
<1> DEFINE r == orderRefSequence + 1
           c == <<s, nextClientId[s] + 1>>
<1>1. r \in Refs /\ orderRefSequence \in Nat /\ c \in Clients
  BY MaxOrdersAssumption DEF SubmitOrder, RefAvailable, TypeOK, TypeOfThreads, Refs, RefsInOrder, Clients
<1>2. order[r] = NoOrder
  BY <1>1 DEF RefsInOrder
<1>3. /\ \A q \in Refs : q # r => order'[q] = order[q]
      /\ order'[r].client = c /\ order'[r].volume = volume
      /\ order'[r].traded = 0 /\ order'[r].state = "new"
  BY <1>1 DEF SubmitOrder, TypeOK, TypeOfBroker
<1>4. volume \in Nat /\ volume > 0
  OBVIOUS
<1>5. /\ orderRefSequence' = r
      /\ \A p \in Strategies : nextClientId'[p] = IF p = s THEN nextClientId[p] + 1 ELSE nextClientId[p]
      /\ \A p \in Strategies : nextClientId[p] \in Nat
  BY MaxOrdersAssumption DEF SubmitOrder, TypeOK, TypeOfThreads
<1>6. UNCHANGED <<feed, pendingEvents, spi, batch, books>>
  BY DEF SubmitOrder
<1>7. /\ \A q \in Refs : q # r => /\ orderToClientId'[q] = orderToClientId[q]
                                  /\ requestedVolume'[q] = requestedVolume[q]
                                  /\ cumulativeTradeVolume'[q] = cumulativeTradeVolume[q]
      /\ orderToClientId'[r] = c /\ requestedVolume'[r] = volume /\ cumulativeTradeVolume'[r] = 0
  BY <1>1 DEF SubmitOrder, TypeOK, TypeOfGateway
<1>8. main'.ref = r /\ main'.pc = "insert"
  BY DEF SubmitOrder
<1>9. c # NoClient /\ c[1] = s /\ c[2] = nextClientId[s] + 1
  BY <1>1
<1>10. order[r].client = NoClient /\ order[r].state = "free" /\ order[r].traded = 0
  BY <1>2 DEF NoOrder
<1>11. \A q \in Refs : order[q].client # c
  BY <1>1, <1>5, <1>9 DEF ClientsAreFresh
<1> HIDE DEF r, c
<1>12. RefsInOrder'
  <2>1. r = orderRefSequence + 1
    BY DEF r
  <2>2. QED
    BY <1>1, <1>3, <1>5, <2>1 DEF RefsInOrder, Refs
<1>13. ClientsAreFresh'
  <2>1. \A q \in Refs : order[q].client # NoClient =>
            order[q].client[1] \in Strategies /\ order[q].client[2] \in Nat
    BY OrdersTyped, MaxOrdersAssumption DEF Clients
  <2>2. \A q \in Refs : order'[q].client # NoClient => order'[q].client[2] <= nextClientId'[order'[q].client[1]]
    BY <1>3, <1>5, <1>9, <2>1 DEF ClientsAreFresh
  <2>3. \A p, q \in Refs : order'[p].client = order'[q].client /\ order'[p].client # NoClient => p = q
    BY <1>3, <1>11 DEF ClientsAreFresh
  <2>4. \A d \in Clients : d[2] > nextClientId'[d[1]] => appliedByClient'[d] = 0
    <3>1. \A d \in Clients : d[1] \in Strategies /\ d[2] \in Nat
      BY MaxOrdersAssumption DEF Clients
    <3>2. QED
      BY <1>5, <1>6, <3>1 DEF ClientsAreFresh, books
  <2>5. QED
    BY <2>2, <2>3, <2>4 DEF ClientsAreFresh
<1>14. BrokerCounts'
  BY <1>3, <1>4 DEF BrokerCounts
<1>15. SubmissionAnswerable'
  BY <1>3, <1>8, <1>9 DEF SubmissionAnswerable
<1>16. MapsAgree'
  BY <1>3, <1>7, <1>9 DEF MapsAgree
<1>17. \A i \in 1..Len(feed) : ~ IsTrade(i, r)
  BY <1>1, <1>10, NoTradeNoReport
<1>18. TradesInOrder'
  BY <1>3, <1>6, <1>7, <1>17 DEF TradesInOrder, IsTrade
<1>19. EndsComeLast'
  BY <1>3, <1>6, <1>10, MessagesTyped DEF EndsComeLast, NothingFollows, IsTrade
<1>20. EventsAreCredible'
  <2>1. \A e \in Event : Credible(e) => Credible(e)'
    BY <1>3, <1>10, EventsTyped DEF Credible
  <2>2. QED
    BY <1>6, <2>1, EventsTyped DEF EventsAreCredible, TypeOK, TypeOfThreads
<1>21. ErasureIsFinal'
  <2>1. spi.pc # "idle" => spi.event.ref \in Refs
    BY EventsTyped DEF TypeOK, TypeOfThreads
  <2>2. QED
    BY <1>3, <1>6, <1>10, <2>1 DEF ErasureIsFinal, IsTrade
<1>22. TableIsBehind'
  <2>1. appliedByClient[c] = 0
    BY <1>1, <1>5, <1>9 DEF ClientsAreFresh
  <2>2. QED
    BY <1>3, <1>6, <2>1 DEF TableIsBehind, books
<1>23. QED
  BY <1>12, <1>13, <1>14, <1>15, <1>16, <1>18, <1>19, <1>20, <1>21, <1>22

\* What erasing an order that is over leaves of the parts about the maps.
LEMMA EraseKeeps ==
    ASSUME IndInv, NEW r \in Refs, NEW c \in Clients \union {NoClient}, EraseOrder(r, c),
           order[r].state \in {"done", "failed"}, \A i \in 1..Len(feed) : ~ IsTrade(i, r),
           UNCHANGED <<order, feed>>
    PROVE  MapsAgree' /\ TradesInOrder'
<1> USE DEF IndInv
<1>1. /\ \A q \in Refs : q # r => /\ orderToClientId'[q] = orderToClientId[q]
                                  /\ requestedVolume'[q] = requestedVolume[q]
                                  /\ cumulativeTradeVolume'[q] = cumulativeTradeVolume[q]
      /\ orderToClientId'[r] = NoClient /\ cumulativeTradeVolume'[r] = 0
  BY DEF EraseOrder, TypeOK, TypeOfGateway
<1>2. MapsAgree'
  BY <1>1, OrdersTyped DEF MapsAgree
<1>3. TradesInOrder'
  BY <1>1 DEF TradesInOrder, IsTrade
<1>4. QED
  BY <1>2, <1>3

LEMMA EraseFailedKeeps == IndInv /\ TypeOK' /\ EraseFailedInsert => IndInv'
<1> SUFFICES ASSUME IndInv, TypeOK', EraseFailedInsert PROVE IndInv'
  OBVIOUS
<1> USE DEF IndInv
<1>1. main.ref \in Refs /\ order[main.ref].state = "failed" /\ order[main.ref].traded = 0
  BY DEF EraseFailedInsert, TypeOK, TypeOfThreads, SubmissionAnswerable, BrokerCounts
<1>2. UNCHANGED <<order, feed, pendingEvents, spi, nextClientId, orderRefSequence, batch, books>>
  BY DEF EraseFailedInsert, brokerVars
<1>3. MapsAgree' /\ TradesInOrder'
  BY <1>1, <1>2, EraseKeeps, NoTradeNoReport, OrdersTyped DEF EraseFailedInsert
<1>4. SubmissionAnswerable'
  BY DEF EraseFailedInsert, SubmissionAnswerable
<1>5. RefsInOrder' /\ BrokerCounts' /\ EndsComeLast' /\ ErasureIsFinal'
  BY <1>2 DEF RefsInOrder, BrokerCounts, EndsComeLast, NothingFollows, ErasureIsFinal, IsTrade
<1>6. ClientsAreFresh' /\ TableIsBehind'
  BY <1>2 DEF ClientsAreFresh, TableIsBehind, books
<1>7. EventsAreCredible'
  BY <1>2 DEF EventsAreCredible, Credible
<1>8. QED
  BY <1>3, <1>4, <1>5, <1>6, <1>7

LEMMA PushSubmittedKeeps == IndInv /\ TypeOK' /\ PushSubmitted => IndInv'
<1> SUFFICES ASSUME IndInv, TypeOK', PushSubmitted PROVE IndInv'
  OBVIOUS
<1> USE DEF IndInv
<1> DEFINE e == [ref |-> main.ref, client |-> order[main.ref].client,
                 status |-> "Submitted", filled |-> 0]
<1>1. UNCHANGED <<order, feed, gatewayMaps, spi, nextClientId, orderRefSequence, batch, books>>
  BY DEF PushSubmitted, brokerVars
<1>2. main.ref \in Refs /\ order[main.ref].client # NoClient
  BY DEF PushSubmitted, TypeOK, TypeOfThreads, SubmissionAnswerable
<1>3. e \in Event /\ Credible(e)
  BY <1>2, OrdersTyped DEF Event, Status, Credible
<1>4. pendingEvents' = Append(pendingEvents, e) /\ pendingEvents \in Seq(Event)
  BY DEF PushSubmitted, PushEvent, TypeOK, TypeOfThreads
<1> HIDE DEF e
<1>5. \A i \in 1..Len(pendingEvents') : pendingEvents'[i] = e \/
          (i \in 1..Len(pendingEvents) /\ pendingEvents'[i] = pendingEvents[i])
  BY <1>3, <1>4
<1>6. EventsAreCredible'
  BY <1>1, <1>3, <1>5 DEF EventsAreCredible, Credible
<1>7. SubmissionAnswerable'
  BY DEF PushSubmitted, SubmissionAnswerable
<1>8. RefsInOrder' /\ BrokerCounts' /\ EndsComeLast' /\ ErasureIsFinal'
  BY <1>1 DEF RefsInOrder, BrokerCounts, EndsComeLast, NothingFollows, ErasureIsFinal, IsTrade
<1>9. ClientsAreFresh' /\ TableIsBehind'
  BY <1>1 DEF ClientsAreFresh, TableIsBehind, books
<1>10. MapsAgree' /\ TradesInOrder'
  BY <1>1 DEF MapsAgree, TradesInOrder, IsTrade, gatewayMaps
<1>11. QED
  BY <1>6, <1>7, <1>8, <1>9, <1>10

\* A cancel request and the drain change nothing a fill depends on.
LEMMA CancelOrDrainKeeps ==
    IndInv /\ TypeOK' /\ (DrainOrderEvents \/ \E c \in Clients : CancelOrder(c)) => IndInv'
<1> SUFFICES ASSUME IndInv, TypeOK', DrainOrderEvents \/ \E c \in Clients : CancelOrder(c) PROVE IndInv'
  OBVIOUS
<1> USE DEF IndInv
<1>1. UNCHANGED <<order, feed, gatewayMaps, spi, main, nextClientId, orderRefSequence, books>>
  BY DEF DrainOrderEvents, CancelOrder, brokerVars, mainVars
<1>2. EventsAreCredible'
  <2>1. CASE DrainOrderEvents
    BY <1>1, <2>1 DEF DrainOrderEvents, EventsAreCredible, Credible
  <2>2. CASE \E c \in Clients : CancelOrder(c)
    BY <1>1, <2>2 DEF CancelOrder, EventsAreCredible, Credible
  <2>3. QED
    BY <2>1, <2>2
<1>3. RefsInOrder' /\ BrokerCounts' /\ SubmissionAnswerable' /\ EndsComeLast' /\ ErasureIsFinal'
  BY <1>1 DEF RefsInOrder, BrokerCounts, SubmissionAnswerable, EndsComeLast, NothingFollows,
              ErasureIsFinal, IsTrade
<1>4. ClientsAreFresh' /\ TableIsBehind'
  BY <1>1 DEF ClientsAreFresh, TableIsBehind, books
<1>5. MapsAgree' /\ TradesInOrder'
  BY <1>1 DEF MapsAgree, TradesInOrder, IsTrade, gatewayMaps
<1>6. QED
  BY <1>2, <1>3, <1>4, <1>5

(* A credible event leaves the table behind what traded: a second event    *)
(* with the same volume adds nothing, and no other order shares its key.   *)
LEMMA ApplyKeeps == IndInv /\ TypeOK' /\ ApplyLiveOrderEvent => IndInv'
<1> SUFFICES ASSUME IndInv, TypeOK', ApplyLiveOrderEvent PROVE IndInv'
  OBVIOUS
<1> USE DEF IndInv
<1> DEFINE e == Head(batch)
           delta == FillDelta(e)
<1>1. UNCHANGED <<order, feed, gatewayMaps, pendingEvents, spi, main, nextClientId, orderRefSequence>>
  BY DEF ApplyLiveOrderEvent, brokerVars, mainVars
<1>2. /\ batch # <<>> /\ batch \in Seq(Event) /\ batch' = Tail(batch)
      /\ e \in Event /\ e = batch[1] /\ Len(batch) \in Nat /\ Len(batch) >= 1
      /\ Len(batch') = Len(batch) - 1
      /\ \A i \in 1..Len(batch') : i + 1 \in 1..Len(batch) /\ batch'[i] = batch[i + 1]
  BY TailShifts DEF ApplyLiveOrderEvent, TypeOK, TypeOfThreads
<1>3. e.ref \in Refs /\ e.filled \in Nat /\ e.client \in Clients \union {NoClient}
  BY <1>2, EventsTyped
<1>4. Credible(e)
  BY <1>2 DEF EventsAreCredible
<1>5. /\ e.client # NoClient => appliedByClient' = [appliedByClient EXCEPT ![e.client] = @ + delta]
                               /\ appliedByRef' = appliedByRef
      /\ e.client = NoClient => appliedByRef' = [appliedByRef EXCEPT ![e.ref] = @ + delta]
                               /\ appliedByClient' = appliedByClient
  BY DEF ApplyLiveOrderEvent
<1>6. delta \in Nat /\ delta <= MaxOf(0, e.filled - AppliedBefore(e))
  BY <1>3 DEF FillDelta, MaxOf, AppliedBefore, TypeOK, TypeOfBooks
<1> HIDE DEF e, delta
<1>7. EventsAreCredible'
  BY <1>1, <1>2 DEF EventsAreCredible, Credible
<1>8. appliedByClient \in [Clients -> Nat] /\ appliedByRef \in [Refs -> Nat]
  BY DEF TypeOK, TypeOfBooks
<1>9. CASE e.client = NoClient
  <2>1. e.filled = 0 /\ appliedByRef[e.ref] = 0
    BY <1>3, <1>4, <1>9 DEF Credible, TableIsBehind
  <2>2. delta = 0
    BY <1>6, <1>9, <2>1 DEF AppliedBefore, MaxOf
  <2>3. (\A r \in Refs : appliedByRef'[r] = 0) /\ appliedByClient' = appliedByClient
    BY <1>3, <1>5, <1>8, <1>9, <2>1, <2>2 DEF TableIsBehind
  <2>4. ClientsAreFresh' /\ TableIsBehind'
    BY <1>1, <2>3 DEF ClientsAreFresh, TableIsBehind
  <2>5. QED
    BY <1>1, <1>7, <2>4 DEF RefsInOrder, BrokerCounts, SubmissionAnswerable, MapsAgree, TradesInOrder,
                            EndsComeLast, NothingFollows, ErasureIsFinal, IsTrade, gatewayMaps
<1>10. CASE e.client # NoClient
  <2>1. /\ e.client = order[e.ref].client /\ e.filled <= order[e.ref].traded
        /\ appliedByClient[e.client] <= order[e.ref].traded
    BY <1>3, <1>4, <1>10 DEF Credible, TableIsBehind
  <2>2. appliedByClient[e.client] + delta <= order[e.ref].traded
    BY <1>3, <1>6, <1>8, <1>10, <2>1, OrdersTyped DEF AppliedBefore, MaxOf
  <2>3. TableIsBehind'
    <3>1. \A q \in Refs : order[q].client # NoClient => order[q].client \in Clients
      BY OrdersTyped
    <3>2. \A q \in Refs : order[q].client = e.client => q = e.ref
      BY <1>3, <1>10, <2>1 DEF ClientsAreFresh
    <3>3. QED
      BY <1>1, <1>3, <1>5, <1>8, <1>10, <2>1, <2>2, <3>1, <3>2 DEF TableIsBehind
  <2>4. ClientsAreFresh'
    <3>1. ~ (e.client[2] > nextClientId[e.client[1]])
      <4>1. e.client[2] <= nextClientId[e.client[1]]
        BY <1>3, <1>10, <2>1 DEF ClientsAreFresh
      <4>2. e.client[2] \in Nat /\ nextClientId[e.client[1]] \in Nat
        BY <1>3, <1>10, MaxOrdersAssumption DEF Clients, TypeOK, TypeOfThreads
      <4>3. QED
        BY <4>1, <4>2
    <3>2. \A d \in Clients : d # e.client => appliedByClient'[d] = appliedByClient[d]
      BY <1>5, <1>8, <1>10
    <3>3. QED
      BY <1>1, <3>1, <3>2 DEF ClientsAreFresh
  <2>5. QED
    BY <1>1, <1>7, <2>3, <2>4 DEF RefsInOrder, BrokerCounts, SubmissionAnswerable, MapsAgree, TradesInOrder,
                            EndsComeLast, NothingFollows, ErasureIsFinal, IsTrade, gatewayMaps
<1>11. QED
  BY <1>9, <1>10

-----------------------------------------------------------------------------
(* The callback thread.                                                    *)

\* The message it takes off the feed, and where those behind it are then.
LEMMA TakesHead ==
    ASSUME TypeOK, feed # <<>>, feed' = Tail(feed)
    PROVE  /\ Head(feed) = feed[1] /\ 1 \in 1..Len(feed) /\ Len(feed) \in Nat
           /\ Head(feed).ref \in Refs /\ Head(feed).volume \in Nat /\ Head(feed).traded \in Nat
           /\ Len(feed') = Len(feed) - 1
           /\ \A i \in 1..Len(feed') : i + 1 \in 1..Len(feed) /\ feed'[i] = feed[i + 1]
           /\ \A r \in Refs : \A i \in 1..Len(feed') : IsTrade(i, r)' => IsTrade(i + 1, r)
<1>1. feed \in Seq(FeedMessage)
  BY DEF TypeOK, TypeOfBroker
<1>2. /\ Head(feed) = feed[1] /\ 1 \in 1..Len(feed) /\ Len(feed) \in Nat
      /\ Len(feed') = Len(feed) - 1
      /\ \A i \in 1..Len(feed') : i + 1 \in 1..Len(feed) /\ feed'[i] = feed[i + 1]
  BY <1>1, TailShifts
<1>3. QED
  BY <1>2, MessagesTyped DEF IsTrade

LEMMA TakingKeepsEnds ==
    ASSUME IndInv, feed # <<>>, feed' = Tail(feed), UNCHANGED order
    PROVE  EndsComeLast'
<1> USE DEF IndInv
<1>1. SUFFICES ASSUME NEW i \in 1..Len(feed') PROVE NothingFollows(i)'
  BY DEF EndsComeLast
<1>2. i + 1 \in 1..Len(feed) /\ feed'[i] = feed[i + 1] /\ feed[i + 1].ref \in Refs /\ NothingFollows(i + 1)
  BY TakesHead, MessagesTyped DEF EndsComeLast
<1>3. \A j \in 1..Len(feed') : j > i /\ IsTrade(j, feed[i].ref)' =>
          j + 1 \in 1..Len(feed) /\ j + 1 > i + 1 /\ IsTrade(j + 1, feed[i + 1].ref)
  BY <1>2, TakesHead DEF IsTrade
<1>4. QED
  BY <1>2, <1>3 DEF NothingFollows

\* Insert responses and order reports carry no fill of their own.
LEMMA ReportKeeps == IndInv /\ TypeOK' /\ (OnRspOrderInsert \/ OnRtnOrder) => IndInv'
<1> SUFFICES ASSUME IndInv, TypeOK', OnRspOrderInsert \/ OnRtnOrder PROVE IndInv'
  OBVIOUS
<1> USE DEF IndInv
<1> DEFINE m == Head(feed)
           r == m.ref
           status == IF m.kind = "RspOrderInsert" THEN "Rejected" ELSE m.status
           e == [ref |-> r, client |-> orderToClientId[r], status |-> status, filled |-> 0]
<1>1. /\ feed # <<>> /\ feed' = Tail(feed) /\ spi.pc = "idle" /\ m.kind \in {"RspOrderInsert", "RtnOrder"}
      /\ UNCHANGED <<order, orderToClientId, cumulativeTradeVolume, pendingEvents, main, nextClientId,
                     orderRefSequence, batch, books>>
  BY DEF OnRspOrderInsert, OnRtnOrder, Incoming, gatewayMaps, mainVars
<1>2. m = feed[1] /\ r \in Refs /\ NothingFollows(1)
  BY <1>1, TakesHead DEF EndsComeLast
<1>3. \/ UNCHANGED spi
      \/ /\ spi' = [pc |-> "push", event |-> e]
         /\ m.kind = "RtnOrder" => ~ IsFillStatus(m.status)
  <2>1. CASE OnRspOrderInsert
    BY <2>1 DEF OnRspOrderInsert, Incoming, StartPush
  <2>2. CASE OnRtnOrder
    <3>1. m.kind = "RtnOrder"
      BY <2>2 DEF OnRtnOrder, Incoming
    <3>2. IsFillStatus(m.status) => m.traded > 0
      BY <1>2, <3>1 DEF NothingFollows
    <3>3. QED
      BY <2>2, <3>1, <3>2 DEF OnRtnOrder, StartPush
  <2>3. QED
    BY <2>1, <2>2
<1>4. \A q \in Refs : orderToClientId[q] # NoClient => requestedVolume'[q] = order[q].volume
  <2>1. CASE OnRspOrderInsert
    BY <2>1 DEF OnRspOrderInsert, gatewayMaps, MapsAgree
  <2>2. CASE OnRtnOrder
    BY <1>2, <2>2 DEF OnRtnOrder, MapsAgree, TypeOK, TypeOfGateway
  <2>3. QED
    BY <2>1, <2>2
<1>5. e.client = orderToClientId[r] /\ e.ref = r /\ e.status = status /\ e.filled = 0
  OBVIOUS
<1>6. ASSUME NEW q \in Refs, q = r, IsTerminalStatus(status), m.kind = "RtnOrder" => ~ IsFillStatus(m.status)
      PROVE  order[q].state = "done" /\ \A i \in 1..Len(feed') : ~ IsTrade(i, q)'
  <2>1. \A i \in 1..Len(feed') : IsTrade(i, q)' => i + 1 \in 1..Len(feed) /\ i + 1 > 1 /\ IsTrade(i + 1, q)
    BY <1>1, TakesHead
  <2>2. CASE m.kind = "RspOrderInsert"
    <3>1. order[q].state = "done" /\ order[q].traded = 0
      BY <1>2, <1>6, <2>2 DEF NothingFollows
    <3>2. \A i \in 1..Len(feed) : ~ IsTrade(i, q)
      BY <3>1, NoTradeNoReport
    <3>3. QED
      BY <2>1, <3>1, <3>2
  <2>3. CASE m.kind = "RtnOrder"
    <3>1. order[q].state = "done" /\ \A j \in 1..Len(feed) : j > 1 => ~ IsTrade(j, q)
      BY <1>2, <1>6, <2>3 DEF NothingFollows
    <3>2. QED
      BY <2>1, <3>1
  <2>4. QED
    BY <1>1, <2>2, <2>3
<1>7. TradesInOrder'
  <2>1. \A q \in Refs : \A i \in 1..Len(feed') :
            IsTrade(i, q)' => IsTrade(i + 1, q) /\ feed'[i] = feed[i + 1] /\ i + 1 \in 1..Len(feed)
    BY <1>1, TakesHead
  <2>2. \A i, j \in 1..Len(feed') : i < j => i + 1 < j + 1
    OBVIOUS
  <2>3. QED
    BY <1>1, <2>1, <2>2 DEF TradesInOrder
<1>8. EndsComeLast'
  BY <1>1, TakingKeepsEnds
<1>9. MapsAgree'
  BY <1>1, <1>4 DEF MapsAgree
<1> HIDE DEF e, status, m
<1>10. EventsAreCredible'
  <2>1. Credible(e)
    BY <1>2, <1>5, OrdersTyped DEF Credible, MapsAgree
  <2>2. QED
    BY <1>1, <1>3, <2>1 DEF EventsAreCredible, Credible
<1>11. ErasureIsFinal'
  <2>1. CASE UNCHANGED spi
    BY <1>1, <2>1 DEF ErasureIsFinal
  <2>2. CASE spi' = [pc |-> "push", event |-> e] /\ (m.kind = "RtnOrder" => ~ IsFillStatus(m.status))
    <3>1. PICK q \in Refs : q = r
      BY <1>2
    <3>2. spi'.event.ref = q /\ spi'.event.status = status /\ spi'.pc = "push"
      BY <1>5, <2>2, <3>1
    <3>3. IsTerminalStatus(status) => order[q].state = "done" /\ \A i \in 1..Len(feed') : ~ IsTrade(i, q)'
      BY <1>6, <2>2, <3>1
    <3>4. QED
      BY <1>1, <3>2, <3>3 DEF ErasureIsFinal, IsTrade
  <2>3. QED
    BY <1>3, <2>1, <2>2
<1>12. RefsInOrder' /\ BrokerCounts' /\ SubmissionAnswerable'
  BY <1>1 DEF RefsInOrder, BrokerCounts, SubmissionAnswerable
<1>13. ClientsAreFresh' /\ TableIsBehind'
  BY <1>1 DEF ClientsAreFresh, TableIsBehind, books
<1>14. QED
  BY <1>7, <1>8, <1>9, <1>10, <1>11, <1>12, <1>13

(* A trade report raises the gateway's total by what traded.  When the      *)
(* total reaches the order's volume the order is done and this was its      *)
(* last trade, so that erasing its entries forgets no fill.                *)
LEMMA TradeReportKeeps == IndInv /\ TypeOK' /\ OnRtnTrade => IndInv'
<1> SUFFICES ASSUME IndInv, TypeOK', OnRtnTrade PROVE IndInv'
  OBVIOUS
<1> USE DEF IndInv
<1> DEFINE m == Head(feed)
<1>1. /\ feed # <<>> /\ feed' = Tail(feed) /\ spi.pc = "idle" /\ m.kind = "RtnTrade"
      /\ UNCHANGED <<order, orderToClientId, requestedVolume, pendingEvents, main, nextClientId,
                     orderRefSequence, batch, books>>
  BY DEF OnRtnTrade, Incoming, mainVars
<1>2. m = feed[1] /\ 1 \in 1..Len(feed) /\ Len(feed) \in Nat /\ m.ref \in Refs /\ m.volume \in Nat /\ m.traded \in Nat
  BY <1>1, TakesHead
<1>3. PICK r \in Refs : r = m.ref
  BY <1>2
<1> DEFINE cumulative == cumulativeTradeVolume[r] + m.volume
           status == IF OrderFilled(cumulative, requestedVolume[r], m.volume)
                     THEN "Filled" ELSE "PartiallyFilled"
<1>4. /\ cumulativeTradeVolume' = [cumulativeTradeVolume EXCEPT ![r] = cumulative]
      /\ spi'.pc = "push" /\ spi'.event.ref = r /\ spi'.event.client = orderToClientId[r]
      /\ spi'.event.filled = cumulative /\ spi'.event.status = status
  BY <1>3 DEF OnRtnTrade, StartPush
<1>5. IsTrade(1, r)
  BY <1>1, <1>2, <1>3 DEF IsTrade
<1>6. /\ m.volume > 0 /\ cumulative <= m.traded /\ m.traded <= order[r].traded
      /\ orderToClientId[r] # NoClient
  BY <1>2, <1>5 DEF TradesInOrder
<1>7. /\ order[r].volume \in Nat /\ order[r].traded \in Nat /\ cumulativeTradeVolume[r] \in Nat
      /\ cumulative \in Nat /\ cumulative > 0 /\ cumulative <= order[r].traded
  BY <1>2, <1>6, OrdersTyped
<1>8. \A q \in Refs : cumulativeTradeVolume'[q] = IF q = r THEN cumulative ELSE cumulativeTradeVolume[q]
  BY <1>4 DEF TypeOK, TypeOfGateway
<1>9. \A q \in Refs : \A i \in 1..Len(feed') : IsTrade(i, q)' =>
          IsTrade(i + 1, q) /\ feed'[i] = feed[i + 1] /\ i + 1 \in 1..Len(feed) /\ 1 < i + 1
  BY <1>1, TakesHead
<1>10. \A i \in 1..Len(feed') : IsTrade(i, r)' =>
          /\ m.traded + feed'[i].volume <= feed'[i].traded
          /\ feed'[i].traded <= order[r].traded
          /\ feed'[i].volume \in Nat /\ feed'[i].traded \in Nat /\ feed'[i].volume > 0
  BY <1>2, <1>5, <1>9, MessagesTyped DEF TradesInOrder
<1> HIDE DEF m, cumulative
<1>11. TradesInOrder'
  <2>1. ASSUME NEW q \in Refs, NEW i \in 1..Len(feed'), IsTrade(i, q)'
        PROVE  /\ feed'[i].volume > 0 /\ feed'[i].traded <= order[q].traded
               /\ cumulativeTradeVolume'[q] + feed'[i].volume <= feed'[i].traded
               /\ orderToClientId[q] # NoClient
    <3>1. CASE q = r
      BY <1>2, <1>6, <1>7, <1>8, <1>10, <2>1, <3>1
    <3>2. CASE q # r
      BY <1>8, <1>9, <2>1, <3>2 DEF TradesInOrder
    <3>3. QED
      BY <3>1, <3>2
  <2>2. \A i, j \in 1..Len(feed') : i < j => i + 1 < j + 1
    OBVIOUS
  <2>3. \A q \in Refs : \A i, j \in 1..Len(feed') : (i < j /\ IsTrade(i, q)' /\ IsTrade(j, q)') =>
            feed'[i].traded + feed'[j].volume <= feed'[j].traded
    BY <1>9, <2>2 DEF TradesInOrder
  <2>4. QED
    BY <1>1, <2>1, <2>3 DEF TradesInOrder
<1>12. EndsComeLast'
  BY <1>1, TakingKeepsEnds
<1>13. MapsAgree'
  BY <1>1, <1>7, <1>8 DEF MapsAgree
<1>14. EventsAreCredible'
  <2>1. /\ spi'.event.client = order[spi'.event.ref].client
        /\ spi'.event.client # NoClient /\ spi'.event.filled <= order[spi'.event.ref].traded
    BY <1>4, <1>6, <1>7 DEF MapsAgree
  <2>2. QED
    BY <1>1, <2>1 DEF EventsAreCredible, Credible
<1>15. ErasureIsFinal'
  <2>1. ASSUME status = "Filled"
        PROVE  order[r].state = "done" /\ \A i \in 1..Len(feed') : ~ IsTrade(i, r)'
    <3>1. requestedVolume[r] = order[r].volume
      BY <1>6 DEF MapsAgree
    <3>2. cumulative >= order[r].volume
      BY <1>2, <1>7, <2>1, <3>1 DEF OrderFilled, MaxOf
    <3>3. order[r].traded = order[r].volume /\ m.traded = order[r].traded
      BY <1>2, <1>6, <1>7, <3>2 DEF BrokerCounts
    <3>4. order[r].state = "done"
      <4>1. order[r].traded > 0
        BY <1>2, <1>6, <1>7
      <4>2. order[r].state \in {"free", "new", "sent", "working", "done", "failed"}
        BY DEF TypeOK, TypeOfBroker, OrderRecord
      <4>3. QED
        BY <1>7, <3>3, <4>1, <4>2 DEF BrokerCounts
    <3>5. QED
      BY <1>2, <1>7, <1>10, <3>3, <3>4
  <2>2. IsTerminalStatus(status) => status = "Filled"
    BY DEF IsTerminalStatus
  <2> HIDE DEF status
  <2>3. QED
    BY <1>1, <1>4, <2>1, <2>2 DEF ErasureIsFinal, IsTrade
<1>16. RefsInOrder' /\ BrokerCounts' /\ SubmissionAnswerable'
  BY <1>1 DEF RefsInOrder, BrokerCounts, SubmissionAnswerable
<1>17. ClientsAreFresh' /\ TableIsBehind'
  BY <1>1 DEF ClientsAreFresh, TableIsBehind, books
<1>18. QED
  BY <1>11, <1>12, <1>13, <1>14, <1>15, <1>16, <1>17

LEMMA PushSpiKeeps == IndInv /\ TypeOK' /\ PushSpiEvent => IndInv'
<1> SUFFICES ASSUME IndInv, TypeOK', PushSpiEvent PROVE IndInv'
  OBVIOUS
<1> USE DEF IndInv
<1>1. UNCHANGED <<order, feed, gatewayMaps, main, nextClientId, orderRefSequence, batch, books>>
  BY DEF PushSpiEvent, brokerVars, mainVars
<1>2. /\ spi.pc = "push" /\ spi.event \in Event /\ pendingEvents \in Seq(Event)
      /\ pendingEvents' = Append(pendingEvents, spi.event)
  BY DEF PushSpiEvent, PushEvent, TypeOK, TypeOfThreads
<1>3. \/ spi'.pc = "idle"
      \/ spi'.pc = "erase" /\ spi'.event = spi.event /\ IsTerminalStatus(spi.event.status)
  BY DEF PushSpiEvent, NoCallback, TypeOK, TypeOfThreads
<1>4. \A i \in 1..Len(pendingEvents') : pendingEvents'[i] = spi.event \/
          (i \in 1..Len(pendingEvents) /\ pendingEvents'[i] = pendingEvents[i])
  BY <1>2
<1>5. EventsAreCredible'
  BY <1>1, <1>2, <1>3, <1>4 DEF EventsAreCredible, Credible
<1>6. ErasureIsFinal'
  BY <1>1, <1>2, <1>3 DEF ErasureIsFinal, IsTrade
<1>7. RefsInOrder' /\ BrokerCounts' /\ SubmissionAnswerable' /\ EndsComeLast'
  BY <1>1 DEF RefsInOrder, BrokerCounts, SubmissionAnswerable, EndsComeLast, NothingFollows, IsTrade
<1>8. ClientsAreFresh' /\ TableIsBehind'
  BY <1>1 DEF ClientsAreFresh, TableIsBehind, books
<1>9. MapsAgree' /\ TradesInOrder'
  BY <1>1 DEF MapsAgree, TradesInOrder, IsTrade, gatewayMaps
<1>10. QED
  BY <1>5, <1>6, <1>7, <1>8, <1>9

LEMMA EraseTerminalKeeps == IndInv /\ TypeOK' /\ EraseTerminal => IndInv'
<1> SUFFICES ASSUME IndInv, TypeOK', EraseTerminal PROVE IndInv'
  OBVIOUS
<1> USE DEF IndInv
<1>1. UNCHANGED <<order, feed, pendingEvents, main, nextClientId, orderRefSequence, batch, books>>
  BY DEF EraseTerminal, brokerVars, mainVars
<1>2. /\ spi.event.ref \in Refs /\ spi.event.client \in Clients \union {NoClient}
      /\ EraseOrder(spi.event.ref, spi.event.client) /\ spi.pc = "erase" /\ spi'.pc = "idle"
  BY EventsTyped DEF EraseTerminal, NoCallback, TypeOK, TypeOfThreads
<1>3. /\ order[spi.event.ref].state = "done"
      /\ \A i \in 1..Len(feed) : ~ IsTrade(i, spi.event.ref)
  BY <1>2 DEF ErasureIsFinal
<1>4. MapsAgree' /\ TradesInOrder'
  BY <1>1, <1>2, <1>3, EraseKeeps
<1>5. EventsAreCredible'
  BY <1>1, <1>2 DEF EventsAreCredible, Credible
<1>6. ErasureIsFinal'
  BY <1>2 DEF ErasureIsFinal
<1>7. RefsInOrder' /\ BrokerCounts' /\ SubmissionAnswerable' /\ EndsComeLast'
  BY <1>1 DEF RefsInOrder, BrokerCounts, SubmissionAnswerable, EndsComeLast, NothingFollows, IsTrade
<1>8. ClientsAreFresh' /\ TableIsBehind'
  BY <1>1 DEF ClientsAreFresh, TableIsBehind, books
<1>9. QED
  BY <1>4, <1>5, <1>6, <1>7, <1>8

-----------------------------------------------------------------------------
(* The theorems.                                                           *)

LEMMA StutterKeeps == IndInv /\ UNCHANGED vars => IndInv'
  BY DEF IndInv, TypeOK, TypeOfBroker, TypeOfGateway, TypeOfThreads, TypeOfBooks, RefsInOrder,
         ClientsAreFresh, BrokerCounts, SubmissionAnswerable, MapsAgree, TradesInOrder, EndsComeLast,
         NothingFollows, EventsAreCredible, Credible, ErasureIsFinal, TableIsBehind, IsTrade,
         vars, brokerVars, gatewayMaps, mainVars, books

LEMMA StepKeeps == IndInv /\ [Next]_vars => IndInv'
<1> SUFFICES ASSUME IndInv, [Next]_vars PROVE IndInv'
  OBVIOUS
<1>1. TypeOK'
  BY TypePreserved DEF IndInv
<1>2. CASE Submission
  BY <1>1, <1>2, InsertKeeps, EraseFailedKeeps, PushSubmittedKeeps DEF Submission
<1>3. CASE EventLoop
  BY <1>1, <1>3, CancelOrDrainKeeps, ApplyKeeps DEF EventLoop
<1>4. CASE Callback
  BY <1>1, <1>4, ReportKeeps, TradeReportKeeps, PushSpiKeeps, EraseTerminalKeeps DEF Callback
<1>5. CASE Strategy
  BY <1>1, <1>5, SubmitKeeps, CancelOrDrainKeeps DEF Strategy
<1>6. CASE Broker
  BY <1>1, <1>6, BrokerAnswerKeeps, BrokerTradeKeeps DEF Broker
<1>7. CASE UNCHANGED vars
  BY <1>7, StutterKeeps
<1>8. QED
  BY <1>2, <1>3, <1>4, <1>5, <1>6, <1>7 DEF Next

(* The inductive invariant holds in every reachable state.                 *)
THEOREM FillsAreTracked == SafeSpec => []IndInv
<1>1. Init => IndInv
  BY InitHolds
<1>2. IndInv /\ [Next]_vars => IndInv'
  BY StepKeeps
<1>3. QED
  BY <1>1, <1>2, PTL DEF SafeSpec

(* Requests, messages, maps, events and books keep their types.            *)
THEOREM TypeCorrect == SafeSpec => []TypeOK
<1>1. IndInv => TypeOK
  BY DEF IndInv
<1>2. QED
  BY <1>1, FillsAreTracked, PTL

(* However messages, callbacks and the main loop interleave, no lot is      *)
(* booked that the broker did not trade, and none is booked twice.         *)
THEOREM BooksNeverRunAhead == SafeSpec => []NeverOverbooked
<1>1. IndInv => NeverOverbooked
  <2> SUFFICES ASSUME IndInv, NEW r \in Refs PROVE Booked(r) <= order[r].traded
    BY DEF NeverOverbooked
  <2>1. order[r].traded \in Nat /\ order[r].client \in Clients \union {NoClient}
    BY OrdersTyped DEF IndInv
  <2>2. QED
    BY <2>1 DEF IndInv, Booked, TableIsBehind, TypeOK, TypeOfBooks
<1>2. QED
  BY <1>1, FillsAreTracked, PTL

(* The gateway forgets an order only when the broker is done with it and no *)
(* trade report of it is still to come.                                    *)
THEOREM NothingIsForgotten == SafeSpec => []ErasureIsFinal
<1>1. IndInv => ErasureIsFinal
  BY DEF IndInv
<1>2. QED
  BY <1>1, FillsAreTracked, PTL

-----------------------------------------------------------------------------
(***************************************************************************)
(* What becomes of a live order in the end, for every number of strategies,*)
(* orders and lots: its fills are all booked, its strategy is told Filled   *)
(* only then, a working order stays in reach of its owner, and an order     *)
(* that is over leaves nothing behind in the gateway's maps.  The invariant *)
(* above bounds what is on its way; here it is exact.                      *)
(***************************************************************************)

\* Events on their way to the books: decided on, queued or drained.
Waiting == {pendingEvents[i] : i \in 1..Len(pendingEvents)} \union {batch[i] : i \in 1..Len(batch)}
Told == Waiting \union (IF spi.pc = "push" THEN {spi.event} ELSE {})

Empty(r) == orderToClientId[r] = NoClient /\ requestedVolume[r] = 0 /\ cumulativeTradeVolume[r] = 0

\* The last message the broker sends for an order.
IsEnd(m) ==
    \/ m.kind = "RspOrderInsert"
    \/ m.kind = "RtnOrder" /\ m.status = "Cancelled"
    \/ m.kind = "RtnTrade" /\ m.traded = order[m.ref].volume

\* The broker speaks of orders it was given.
SentOnly ==
    /\ \A i \in 1..Len(feed) : order[feed[i].ref].state \in {"working", "done"}
    /\ spi.pc # "idle" => order[spi.event.ref].state \in {"working", "done"}

\* The two maps are inverse to each other.
MapsMatch == \A r \in Refs, c \in Clients : clientIdToOrderRef[c] = r <=> orderToClientId[r] = c

\* The callback in progress erases under the id the order is mapped to.
SpiNamesClient == spi.pc # "idle" => spi.event.client = orderToClientId[spi.event.ref]

\* While an order is in the maps its sum of reports and the reports on their
\* way follow each other without a gap, up to what traded.
Preceded(i, r) ==
    \/ cumulativeTradeVolume[r] + feed[i].volume = feed[i].traded
    \/ \E j \in 1..Len(feed) : j < i /\ IsTrade(j, r) /\ feed[j].traded + feed[i].volume = feed[i].traded
Latest(r) ==
    \/ cumulativeTradeVolume[r] = order[r].traded
    \/ \E j \in 1..Len(feed) : IsTrade(j, r) /\ feed[j].traded = order[r].traded
CountsAreExact ==
    \A r \in Refs : orderToClientId[r] # NoClient =>
        /\ Latest(r)
        /\ \A i \in 1..Len(feed) : IsTrade(i, r) => Preceded(i, r)

\* What the broker says of an order it is done with finishes with its end;
\* when nothing more comes, the maps are empty or about to be erased.
EndIsAhead(r) ==
    \A i \in 1..Len(feed) : feed[i].ref = r =>
        \E j \in 1..Len(feed) : j >= i /\ feed[j].ref = r /\ IsEnd(feed[j])
Erasing(r) == spi.pc # "idle" /\ spi.event.ref = r /\ IsTerminalStatus(spi.event.status)
EndsAreComing ==
    \A r \in Refs : order[r].state = "done" =>
        /\ EndIsAhead(r)
        /\ (\A i \in 1..Len(feed) : feed[i].ref # r) => Empty(r) \/ Erasing(r)

\* An order that was never sent is in the maps only while it is submitted.
UnsentIsEmpty ==
    \A r \in Refs : order[r].state \in {"free", "failed"} =>
        Empty(r) \/ (main.pc = "erase" /\ main.ref = r)

\* An event says Filled of a whole order, and the end of one that is over.
EventsSayTheEnd ==
    \A e \in Told : /\ e.status = "Filled" => e.filled = order[e.ref].volume /\ e.filled > 0
                    /\ IsTerminalStatus(e.status) => order[e.ref].state = "done"

\* A working order is among the open ones or will be.
WorkIsSeen ==
    \A r \in Refs : order[r].state = "working" =>
        \/ r \in opened
        \/ \E e \in Told : e.ref = r /\ ~IsTerminalStatus(e.status)
        \/ \E i \in 1..Len(feed) : feed[i].ref = r /\ feed[i].kind = "RtnOrder" /\ feed[i].status = "Accepted"

\* All that traded is booked or on its way to the books.
FillsAreComing ==
    \A r \in Refs : order[r].traded > 0 =>
        /\ order[r].client # NoClient
        /\ \/ appliedByClient[order[r].client] = order[r].traded
           \/ \E e \in Told : e.ref = r /\ IsFillStatus(e.status) /\ e.filled = order[r].traded
           \/ \E i \in 1..Len(feed) : IsTrade(i, r) /\ feed[i].traded = order[r].traded

EndInv ==
    /\ SentOnly /\ MapsMatch /\ SpiNamesClient
    /\ CountsAreExact /\ EndsAreComing /\ UnsentIsEmpty
    /\ EventsSayTheEnd /\ WorkIsSeen /\ FillsAreComing

GatewayInv == SentOnly /\ MapsMatch /\ SpiNamesClient /\ CountsAreExact /\ EndsAreComing
BooksInv == EventsSayTheEnd /\ WorkIsSeen /\ FillsAreComing

-----------------------------------------------------------------------------
(* Events on their way.                                                    *)

LEMMA ToldTyped ==
    ASSUME TypeOK
    PROVE  /\ Told \subseteq Event
           /\ \A e \in Event : e.ref \in Refs /\ e.filled \in Nat
           /\ spi.pc # "idle" => spi.event \in Event
<1>1. spi.pc # "idle" => spi.event \in Event
  BY DEF TypeOK, TypeOfThreads
<1>2. Waiting \subseteq Event
  BY EventsTyped DEF Waiting
<1> QED
  BY <1>1, <1>2, EventsTyped DEF Told

LEMMA QueueGrows ==
    ASSUME TypeOK, NEW e \in Event, PushEvent(e), batch' = batch
    PROVE  Waiting' = Waiting \union {e}
<1>1. /\ Len(pendingEvents') = Len(pendingEvents) + 1 /\ Len(pendingEvents) \in Nat
      /\ pendingEvents'[Len(pendingEvents) + 1] = e
      /\ \A i \in 1..Len(pendingEvents) : pendingEvents'[i] = pendingEvents[i]
  BY AppendProperties DEF PushEvent, TypeOK, TypeOfThreads
<1>2. {pendingEvents'[i] : i \in 1..Len(pendingEvents')} = {pendingEvents[i] : i \in 1..Len(pendingEvents)} \union {e}
  <2>1. \A i \in 1..Len(pendingEvents') : i \in 1..Len(pendingEvents) \/ i = Len(pendingEvents) + 1
    BY <1>1
  <2>2. \A i \in 1..Len(pendingEvents) : i \in 1..Len(pendingEvents')
    BY <1>1
  <2>3. Len(pendingEvents) + 1 \in 1..Len(pendingEvents')
    BY <1>1
  <2> QED
    BY <1>1, <2>1, <2>2, <2>3
<1> QED
  BY <1>2 DEF Waiting

LEMMA DrainMoves == TypeOK /\ DrainOrderEvents => Told' = Told
<1> SUFFICES ASSUME TypeOK, DrainOrderEvents PROVE Told' = Told
  OBVIOUS
<1>1. batch = <<>> /\ batch' = pendingEvents /\ pendingEvents' = <<>> /\ spi' = spi
  BY DEF DrainOrderEvents
<1>2. Waiting' = Waiting
  <2>1. {batch[i] : i \in 1..Len(batch)} = {}
    BY <1>1
  <2>2. {pendingEvents'[i] : i \in 1..Len(pendingEvents')} = {}
    BY <1>1
  <2> QED
    BY <1>1, <2>1, <2>2 DEF Waiting
<1> QED
  BY <1>1, <1>2 DEF Told

LEMMA ApplyTakesHead ==
    ASSUME TypeOK, ApplyLiveOrderEvent
    PROVE  /\ Head(batch) \in Told /\ Head(batch) \in Event
           /\ Told' \subseteq Told /\ Told \subseteq Told' \union {Head(batch)}
<1>1. /\ batch \in Seq(Event) /\ batch # <<>> /\ batch' = Tail(batch)
      /\ pendingEvents' = pendingEvents /\ spi' = spi
  BY DEF ApplyLiveOrderEvent, TypeOK, TypeOfThreads
<1>2. /\ Head(batch) \in Event /\ Head(batch) = batch[1]
      /\ Len(batch) \in Nat /\ Len(batch) >= 1 /\ Len(batch') = Len(batch) - 1
      /\ \A i \in 1..Len(batch') : i + 1 \in 1..Len(batch) /\ batch'[i] = batch[i + 1]
  BY <1>1, TailShifts
<1>3. \A i \in 1..Len(batch) : i = 1 \/ (i - 1 \in 1..Len(batch') /\ batch'[i - 1] = batch[i])
  <2>1. \A i \in 1..Len(batch) : i # 1 => i - 1 \in 1..Len(batch') /\ (i - 1) + 1 = i
    BY <1>2
  <2> QED
    BY <1>2, <2>1
<1>4. 1 \in 1..Len(batch)
  BY <1>2
<1>5. /\ Head(batch) \in Waiting
      /\ Waiting' \subseteq Waiting /\ Waiting \subseteq Waiting' \union {Head(batch)}
  BY <1>1, <1>2, <1>3, <1>4 DEF Waiting
<1> QED
  BY <1>1, <1>2, <1>5 DEF Told

-----------------------------------------------------------------------------
(* Steps that leave the feed, the maps and the callback alone.             *)

LEMMA GatewayRests ==
    ASSUME GatewayInv, UnsentIsEmpty, UNCHANGED <<order, feed, gatewayMaps, spi>>,
           main.pc = "erase" => main' = main
    PROVE  GatewayInv' /\ UnsentIsEmpty'
<1>1. UNCHANGED <<orderToClientId, clientIdToOrderRef, requestedVolume, cumulativeTradeVolume>>
  BY DEF gatewayMaps
<1>2. SentOnly' /\ MapsMatch' /\ SpiNamesClient'
  BY <1>1 DEF GatewayInv, SentOnly, MapsMatch, SpiNamesClient
<1>3. CountsAreExact'
  BY <1>1 DEF GatewayInv, CountsAreExact, Latest, Preceded, IsTrade
<1>4. EndsAreComing'
  BY <1>1 DEF GatewayInv, EndsAreComing, EndIsAhead, Erasing, Empty, IsEnd
<1>5. UnsentIsEmpty'
  BY <1>1 DEF UnsentIsEmpty, Empty
<1> QED
  BY <1>2, <1>3, <1>4, <1>5 DEF GatewayInv

\* Events that were on their way still are, and a new one says no end.
LEMMA BooksRest ==
    ASSUME TypeOK, BooksInv, UNCHANGED <<order, feed, appliedByClient, opened>>,
           Told \subseteq Told', \A e \in Told' : e \in Told \/ ~IsTerminalStatus(e.status)
    PROVE  BooksInv'
<1>1. EventsSayTheEnd'
  BY DEF BooksInv, EventsSayTheEnd, IsTerminalStatus
<1>2. WorkIsSeen'
  BY DEF BooksInv, WorkIsSeen
<1>3. FillsAreComing'
  BY DEF BooksInv, FillsAreComing, IsTrade
<1> QED
  BY <1>1, <1>2, <1>3 DEF BooksInv

LEMMA CancelOrDrainEnds ==
    IndInv /\ EndInv /\ (DrainOrderEvents \/ \E c \in Clients : CancelOrder(c)) => EndInv'
<1> SUFFICES ASSUME IndInv, EndInv, DrainOrderEvents \/ \E c \in Clients : CancelOrder(c) PROVE EndInv'
  OBVIOUS
<1>1. UNCHANGED <<order, feed, gatewayMaps, spi, main, appliedByClient, opened>>
  BY DEF DrainOrderEvents, CancelOrder, brokerVars, mainVars, books
<1>2. Told' = Told
  <2>1. CASE DrainOrderEvents
    BY <2>1, DrainMoves DEF IndInv
  <2>2. CASE \E c \in Clients : CancelOrder(c)
    BY <2>2 DEF CancelOrder, Told, Waiting
  <2> QED
    BY <2>1, <2>2
<1>3. GatewayInv' /\ UnsentIsEmpty'
  BY <1>1, GatewayRests DEF EndInv, GatewayInv
<1>4. BooksInv'
  BY <1>1, <1>2, BooksRest DEF EndInv, BooksInv, IndInv
<1> QED
  BY <1>3, <1>4 DEF EndInv, GatewayInv, BooksInv

LEMMA PushSubmittedEnds == IndInv /\ EndInv /\ PushSubmitted => EndInv'
<1> SUFFICES ASSUME IndInv, EndInv, PushSubmitted PROVE EndInv'
  OBVIOUS
<1> DEFINE e == [ref |-> main.ref, client |-> order[main.ref].client,
                 status |-> "Submitted", filled |-> 0]
<1>1. UNCHANGED <<order, feed, gatewayMaps, spi, batch, appliedByClient, opened>>
  BY DEF PushSubmitted, brokerVars, books
<1>2. e \in Event /\ PushEvent(e)
  <2>1. main.ref \in Refs
    BY DEF PushSubmitted, IndInv, TypeOK, TypeOfThreads
  <2> QED
    BY <2>1, OrdersTyped DEF PushSubmitted, IndInv, Event, Status
<1>3. ~IsTerminalStatus(e.status)
  BY DEF IsTerminalStatus
<1> HIDE DEF e
<1>4. Waiting' = Waiting \union {e}
  BY <1>1, <1>2, QueueGrows DEF IndInv
<1>5. Told' = Told \union {e}
  BY <1>1, <1>4 DEF Told
<1>6. GatewayInv' /\ UnsentIsEmpty'
  BY <1>1, GatewayRests DEF EndInv, GatewayInv, PushSubmitted
<1>7. BooksInv'
  BY <1>1, <1>3, <1>5, BooksRest DEF EndInv, BooksInv, IndInv
<1> QED
  BY <1>6, <1>7 DEF EndInv, GatewayInv, BooksInv

(* Applying an event books the rest of what it says traded; the end it may  *)
(* say is that of an order no longer working.                              *)
LEMMA ApplyEnds == IndInv /\ EndInv /\ ApplyLiveOrderEvent => EndInv'
<1> SUFFICES ASSUME IndInv, EndInv, ApplyLiveOrderEvent PROVE EndInv'
  OBVIOUS
<1> DEFINE e == Head(batch)
<1>1. UNCHANGED <<order, feed, gatewayMaps, spi, main>>
  BY DEF ApplyLiveOrderEvent, brokerVars, mainVars
<1>2. e \in Told /\ e \in Event /\ Told' \subseteq Told /\ Told \subseteq Told' \union {e}
  BY ApplyTakesHead DEF IndInv
<1>3. GatewayInv' /\ UnsentIsEmpty'
  BY <1>1, GatewayRests DEF EndInv, GatewayInv
<1>4. EventsSayTheEnd'
  BY <1>1, <1>2 DEF EndInv, EventsSayTheEnd
<1>5. e.ref \in Refs /\ e.filled \in Nat /\ (IsTerminalStatus(e.status) => order[e.ref].state = "done")
  BY <1>2, ToldTyped DEF EndInv, EventsSayTheEnd, IndInv
<1>6. WorkIsSeen'
  <2> SUFFICES ASSUME NEW r \in Refs, order[r].state = "working"
               PROVE  \/ r \in opened'
                      \/ \E d \in Told' : d.ref = r /\ ~IsTerminalStatus(d.status)
                      \/ \E i \in 1..Len(feed) : feed[i].ref = r /\ feed[i].kind = "RtnOrder" /\ feed[i].status = "Accepted"
    BY <1>1 DEF WorkIsSeen
  <2>1. r \in opened => r \in opened'
    BY <1>5 DEF ApplyLiveOrderEvent
  <2>2. e.ref = r => r \in opened'
    BY <1>5 DEF ApplyLiveOrderEvent
  <2> QED
    BY <1>2, <2>1, <2>2 DEF EndInv, WorkIsSeen
<1>7. FillsAreComing'
  <2> SUFFICES ASSUME NEW r \in Refs, order[r].traded > 0
               PROVE  \/ appliedByClient'[order[r].client] = order[r].traded
                      \/ \E d \in Told' : d.ref = r /\ IsFillStatus(d.status) /\ d.filled = order[r].traded
                      \/ \E i \in 1..Len(feed) : IsTrade(i, r) /\ feed[i].traded = order[r].traded
    BY <1>1 DEF EndInv, FillsAreComing, IsTrade
  <2>a. order[r].traded \in Nat /\ order[r].client \in Clients \union {NoClient}
    BY OrdersTyped DEF IndInv
  <2>b. appliedByClient \in [Clients -> Nat]
    BY DEF IndInv, TypeOK, TypeOfBooks
  <2>c. batch \in Seq(Event) /\ batch # <<>>
    BY DEF ApplyLiveOrderEvent, IndInv, TypeOK, TypeOfThreads
  <2>d. e.client \in {NoClient, order[e.ref].client} /\ (e.client = NoClient => e.filled = 0)
        /\ e.filled <= order[e.ref].traded
    BY <2>c, TailShifts DEF IndInv, EventsAreCredible, Credible
  <2>1. CASE e.ref = r /\ IsFillStatus(e.status) /\ e.filled = order[r].traded
    <3>1. e.client = order[r].client /\ e.client \in Clients /\ e.client # NoClient
      BY <2>1, <2>a, <2>d
    <3>2. appliedByClient'[e.client] = appliedByClient[e.client] + MaxOf(0, e.filled - appliedByClient[e.client])
      BY <2>1, <2>b, <3>1 DEF ApplyLiveOrderEvent, FillDelta, AppliedBefore
    <3>3. appliedByClient[e.client] <= order[r].traded /\ appliedByClient[e.client] \in Nat
      BY <2>b, <3>1 DEF IndInv, TableIsBehind
    <3> QED
      BY <2>1, <2>a, <3>1, <3>2, <3>3 DEF MaxOf
  <2>2. CASE appliedByClient[order[r].client] = order[r].traded
    <3>1. order[r].client \in Clients /\ order[r].client # NoClient
      BY <2>a DEF EndInv, FillsAreComing
    <3>2. CASE e.client = order[r].client
      <4>1. e.ref = r
        BY <1>5, <2>d, <3>1, <3>2 DEF IndInv, ClientsAreFresh
      <4>2. FillDelta(e) = 0
        BY <1>5, <2>2, <2>a, <2>d, <3>1, <3>2, <4>1 DEF FillDelta, AppliedBefore, MaxOf
      <4> QED
        BY <2>2, <2>a, <2>b, <3>1, <3>2, <4>2 DEF ApplyLiveOrderEvent
    <3>3. CASE e.client # order[r].client
      <4>1. appliedByClient'[order[r].client] = appliedByClient[order[r].client]
        BY <2>b, <3>1, <3>3 DEF ApplyLiveOrderEvent
      <4> QED
        BY <2>2, <4>1
    <3> QED
      BY <3>2, <3>3
  <2> QED
    BY <1>1, <1>2, <2>1, <2>2 DEF EndInv, FillsAreComing
<1> QED
  BY <1>3, <1>4, <1>6, <1>7 DEF EndInv, GatewayInv, BooksInv

-----------------------------------------------------------------------------
(* The submission.                                                         *)

LEMMA InsertEnds ==
    IndInv /\ EndInv /\ ((\E ioc \in BOOLEAN : InsertSent(ioc)) \/ InsertFails) => EndInv'
<1> SUFFICES ASSUME IndInv, EndInv, (\E ioc \in BOOLEAN : InsertSent(ioc)) \/ InsertFails PROVE EndInv'
  OBVIOUS
<1>0. PICK r \in Refs : r = main.ref
  BY DEF InsertSent, InsertFails, IndInv, TypeOK, TypeOfThreads
<1>1. /\ main.pc = "insert" /\ order[r].state = "new"
      /\ feed' = feed /\ spi' = spi /\ UNCHANGED gatewayMaps
      /\ pendingEvents' = pendingEvents /\ batch' = batch
      /\ appliedByClient' = appliedByClient /\ opened' = opened
  BY <1>0 DEF InsertSent, InsertFails, IndInv, SubmissionAnswerable, books
<1>2. PICK to \in {"sent", "failed"} :
          /\ order' = [order EXCEPT ![r].state = to]
          /\ to = "failed" => main' = [main EXCEPT !.pc = "erase"]
  BY <1>0 DEF InsertSent, InsertFails
<1>3. /\ \A q \in Refs : /\ order'[q].client = order[q].client
                         /\ order'[q].volume = order[q].volume
                         /\ order'[q].traded = order[q].traded
                         /\ q # r => order'[q] = order[q]
      /\ order'[r].state = to
  BY <1>2, StateMoves DEF IndInv
<1>4. \A q \in Refs : order[q].state \in {"working", "done"} => order'[q] = order[q]
  <2> SUFFICES ASSUME NEW q \in Refs, order[q].state \in {"working", "done"} PROVE order'[q] = order[q]
    OBVIOUS
  <2>1. q # r
    BY <1>1
  <2> QED
    BY <1>3, <2>1
<1>5. /\ \A i \in 1..Len(feed) : feed[i].ref \in Refs
      /\ spi.pc # "idle" => spi.event.ref \in Refs
      /\ \A e \in Told : e.ref \in Refs
  BY MessagesTyped, ToldTyped DEF IndInv
<1>6. UNCHANGED <<orderToClientId, clientIdToOrderRef, requestedVolume, cumulativeTradeVolume>>
  BY <1>1 DEF gatewayMaps
<1>7. Told' = Told
  BY <1>1 DEF Told, Waiting
<1>8. SentOnly' /\ MapsMatch' /\ SpiNamesClient'
  BY <1>1, <1>4, <1>5, <1>6 DEF EndInv, SentOnly, MapsMatch, SpiNamesClient
<1>9. CountsAreExact'
  BY <1>1, <1>3, <1>6 DEF EndInv, CountsAreExact, Latest, Preceded, IsTrade
<1>10. EndsAreComing'
  <2>1. \A q \in Refs : order'[q].state = "done" => order[q].state = "done"
    BY <1>2, <1>3
  <2>2. \A i \in 1..Len(feed) : IsEnd(feed[i])' <=> IsEnd(feed[i])
    BY <1>1, <1>3, <1>5 DEF IsEnd
  <2> QED
    BY <1>1, <1>6, <2>1, <2>2 DEF EndInv, EndsAreComing, EndIsAhead, Erasing, Empty
<1>11. UnsentIsEmpty'
  <2>1. \A q \in Refs : order'[q].state \in {"free", "failed"} =>
            (order[q].state \in {"free", "failed"} /\ main.pc # "erase") \/ (q = r /\ to = "failed")
    BY <1>1, <1>2, <1>3
  <2>2. to = "failed" => main'.pc = "erase" /\ main'.ref = r
    BY <1>0, <1>2 DEF IndInv, TypeOK, TypeOfThreads
  <2> QED
    BY <1>6, <2>1, <2>2 DEF EndInv, UnsentIsEmpty, Empty
<1>12. EventsSayTheEnd' /\ WorkIsSeen' /\ FillsAreComing'
  <2>1. EventsSayTheEnd'
    BY <1>3, <1>4, <1>5, <1>7 DEF EndInv, EventsSayTheEnd
  <2>2. WorkIsSeen'
    BY <1>1, <1>2, <1>3, <1>7 DEF EndInv, WorkIsSeen
  <2>3. FillsAreComing'
    BY <1>1, <1>3, <1>7 DEF EndInv, FillsAreComing, IsTrade
  <2> QED
    BY <2>1, <2>2, <2>3
<1> QED
  BY <1>8, <1>9, <1>10, <1>11, <1>12 DEF EndInv

\* What erasing an order that is over leaves of the gateway: its own entries
\* under both keys, and nobody else's.
LEMMA EraseEnds ==
    ASSUME IndInv, EndInv, NEW r \in Refs, NEW c \in Clients \union {NoClient}, EraseOrder(r, c),
           c \in {orderToClientId[r], order[r].client},
           c = NoClient => orderToClientId[r] = NoClient,
           UNCHANGED <<order, feed>>,
           spi'.pc # "idle" => spi' = spi /\ spi.event.ref # r,
           spi.pc # "idle" => spi' = spi \/ spi.event.ref = r,
           main.pc = "erase" => main' = main \/ main.ref = r
    PROVE  GatewayInv' /\ UnsentIsEmpty'
<1>1. /\ \A q \in Refs : q # r => /\ orderToClientId'[q] = orderToClientId[q]
                                  /\ requestedVolume'[q] = requestedVolume[q]
                                  /\ cumulativeTradeVolume'[q] = cumulativeTradeVolume[q]
      /\ orderToClientId'[r] = NoClient /\ requestedVolume'[r] = 0 /\ cumulativeTradeVolume'[r] = 0
  BY DEF EraseOrder, IndInv, TypeOK, TypeOfGateway
<1>2. SentOnly' /\ SpiNamesClient'
  <2>1. spi.pc # "idle" => spi.event.ref \in Refs
    BY ToldTyped DEF IndInv
  <2> QED
    BY <1>1, <2>1 DEF EndInv, SentOnly, SpiNamesClient
<1>3. MapsMatch'
  <2> SUFFICES ASSUME NEW q \in Refs, NEW d \in Clients
               PROVE  clientIdToOrderRef'[d] = q <=> orderToClientId'[q] = d
    BY DEF MapsMatch
  <2>1. clientIdToOrderRef[d] = q <=> orderToClientId[q] = d
    BY DEF EndInv, MapsMatch
  <2>2. /\ d # c => clientIdToOrderRef'[d] = clientIdToOrderRef[d]
        /\ d = c => clientIdToOrderRef'[d] = NoRef
        /\ q # NoRef /\ d # NoClient
    BY ClientsAreNamed DEF EraseOrder, IndInv, TypeOK, TypeOfGateway, Refs, NoRef
  <2>3. CASE q = r
    <3>1. d # c => orderToClientId[r] # d
      BY <2>2, ClientsAreNamed DEF IndInv, MapsAgree
    <3> QED
      BY <1>1, <2>1, <2>2, <2>3, <3>1
  <2>4. CASE q # r
    <3>1. orderToClientId[q] \in {NoClient, order[q].client} /\ orderToClientId[r] \in {NoClient, order[r].client}
      BY DEF IndInv, MapsAgree
    <3>2. d = c => orderToClientId[q] # d
      BY <2>2, <2>4, <3>1 DEF IndInv, ClientsAreFresh
    <3> QED
      BY <1>1, <2>1, <2>2, <2>4, <3>2
  <2> QED
    BY <2>3, <2>4
<1>4. CountsAreExact'
  BY <1>1 DEF EndInv, CountsAreExact, Latest, Preceded, IsTrade
<1>5. EndsAreComing'
  <2> SUFFICES ASSUME NEW q \in Refs, order[q].state = "done"
               PROVE  /\ EndIsAhead(q)'
                      /\ (\A i \in 1..Len(feed) : feed[i].ref # q) => Empty(q)' \/ Erasing(q)'
    BY DEF EndsAreComing
  <2>1. /\ EndIsAhead(q)
        /\ (\A i \in 1..Len(feed) : feed[i].ref # q) => Empty(q) \/ Erasing(q)
    BY DEF EndInv, EndsAreComing
  <2>2. EndIsAhead(q)'
    BY <2>1 DEF EndIsAhead, IsEnd
  <2>3. CASE q = r
    BY <1>1, <2>2, <2>3 DEF Empty
  <2>4. CASE q # r
    BY <1>1, <2>1, <2>2, <2>4 DEF Empty, Erasing
  <2> QED
    BY <2>3, <2>4
<1>6. UnsentIsEmpty'
  BY <1>1 DEF EndInv, UnsentIsEmpty, Empty
<1> QED
  BY <1>2, <1>3, <1>4, <1>5, <1>6 DEF GatewayInv

LEMMA EraseFailedEnds == IndInv /\ EndInv /\ EraseFailedInsert => EndInv'
<1> SUFFICES ASSUME IndInv, EndInv, EraseFailedInsert PROVE EndInv'
  OBVIOUS
<1>1. /\ main.ref \in Refs /\ order[main.ref].state = "failed" /\ order[main.ref].client # NoClient
      /\ order[main.ref].client \in Clients \union {NoClient}
      /\ EraseOrder(main.ref, order[main.ref].client)
      /\ UNCHANGED <<order, feed, pendingEvents, spi, batch, appliedByClient, opened>>
  BY OrdersTyped DEF EraseFailedInsert, IndInv, TypeOK, TypeOfThreads, SubmissionAnswerable, brokerVars, books
<1>2. spi.pc # "idle" => spi.event.ref # main.ref
  BY <1>1 DEF EndInv, SentOnly
<1>3. GatewayInv' /\ UnsentIsEmpty'
  BY <1>1, <1>2, EraseEnds
<1>4. Told' = Told
  BY <1>1 DEF Told, Waiting
<1>5. BooksInv'
  BY <1>1, <1>4, BooksRest DEF EndInv, BooksInv, IndInv
<1> QED
  BY <1>3, <1>5 DEF EndInv, GatewayInv, BooksInv

\* A new order takes a ref nobody spoke of and an id nobody used.
LEMMA SubmitEnds ==
    ASSUME IndInv, EndInv, NEW s \in Strategies, NEW offset \in Offsets, NEW volume \in 1..MaxVolume,
           SubmitOrder(s, offset, volume)
    PROVE  EndInv'
<1>1. PICK r \in Refs, c \in Clients :
        /\ r = orderRefSequence + 1 /\ c = <<s, nextClientId[s] + 1>>
        /\ order' = [order EXCEPT ![r] = [strategy |-> s, client |-> c, offset |-> offset,
                                         volume |-> volume, state |-> "new", traded |-> 0]]
        /\ orderToClientId' = [orderToClientId EXCEPT ![r] = c]
        /\ clientIdToOrderRef' = [clientIdToOrderRef EXCEPT ![c] = r]
        /\ requestedVolume' = [requestedVolume EXCEPT ![r] = volume]
        /\ cumulativeTradeVolume' = [cumulativeTradeVolume EXCEPT ![r] = 0]
  <2>1. /\ orderRefSequence + 1 \in Refs
        /\ <<s, nextClientId[s] + 1>> \in Clients
    <3>1. /\ orderRefSequence < MaxOrders /\ orderRefSequence \in Nat
          /\ nextClientId[s] \in Nat /\ nextClientId[s] <= orderRefSequence
      BY MaxOrdersAssumption DEF SubmitOrder, RefAvailable, IndInv, RefsInOrder, TypeOK, TypeOfThreads
    <3>2. orderRefSequence + 1 \in 1..MaxOrders /\ nextClientId[s] + 1 \in 1..MaxOrders
      BY <3>1, MaxOrdersAssumption
    <3> QED
      BY <3>2 DEF Refs, Clients
  <2> QED
    BY <2>1 DEF SubmitOrder
<1>2. /\ main.pc = "idle" /\ feed' = feed /\ spi' = spi
      /\ pendingEvents' = pendingEvents /\ batch' = batch
      /\ appliedByClient' = appliedByClient /\ opened' = opened
  BY DEF SubmitOrder, books
<1>3. order[r] = NoOrder /\ order[r].state = "free" /\ order[r].traded = 0 /\ order[r].client = NoClient
  <2>1. r > orderRefSequence
    BY <1>1 DEF IndInv, TypeOK, TypeOfThreads
  <2> QED
    BY <2>1 DEF IndInv, RefsInOrder, NoOrder
<1>4. /\ order'[r].state = "new" /\ order'[r].traded = 0 /\ order'[r].client = c
      /\ \A q \in Refs : q # r => order'[q] = order[q]
  BY <1>1 DEF IndInv, TypeOK, TypeOfBroker
<1>5. /\ orderToClientId'[r] = c /\ cumulativeTradeVolume'[r] = 0
      /\ \A q \in Refs : q # r => /\ orderToClientId'[q] = orderToClientId[q]
                                /\ requestedVolume'[q] = requestedVolume[q]
                                /\ cumulativeTradeVolume'[q] = cumulativeTradeVolume[q]
  BY <1>1 DEF IndInv, TypeOK, TypeOfGateway
<1>6. Told' = Told
  BY <1>2 DEF Told, Waiting
<1>7. /\ \A i \in 1..Len(feed) : feed[i].ref \in Refs /\ feed[i].ref # r
      /\ spi.pc # "idle" => spi.event.ref \in Refs /\ spi.event.ref # r
      /\ \A e \in Told : e.ref \in Refs
  BY <1>3, MessagesTyped, ToldTyped DEF IndInv, EndInv, SentOnly
<1>8. SentOnly' /\ SpiNamesClient'
  BY <1>2, <1>4, <1>5, <1>7 DEF EndInv, SentOnly, SpiNamesClient
<1>9. MapsMatch'
  <2> SUFFICES ASSUME NEW q \in Refs, NEW d \in Clients
               PROVE  clientIdToOrderRef'[d] = q <=> orderToClientId'[q] = d
    BY DEF MapsMatch
  <2>1. clientIdToOrderRef[d] = q <=> orderToClientId[q] = d
    BY DEF EndInv, MapsMatch
  <2>2. clientIdToOrderRef'[d] = IF d = c THEN r ELSE clientIdToOrderRef[d]
    BY <1>1 DEF IndInv, TypeOK, TypeOfGateway
  <2>3. orderToClientId[r] = NoClient /\ d # NoClient
    BY <1>3, ClientsAreNamed DEF IndInv, MapsAgree
  <2>4. CASE d = c /\ q # r
    <3>1. order[q].client # c
      <4>1. c[1] = s /\ c[2] = nextClientId[s] + 1 /\ nextClientId[s] \in Nat
        BY <1>1 DEF IndInv, TypeOK, TypeOfThreads
      <4>2. order[q].client = c => c[2] <= nextClientId[c[1]]
        BY ClientsAreNamed DEF IndInv, ClientsAreFresh
      <4> QED
        BY <4>1, <4>2
    <3>2. orderToClientId[q] # c
      BY <2>3, <2>4, <3>1 DEF IndInv, MapsAgree
    <3> QED
      BY <1>5, <2>2, <2>4, <3>2
  <2>5. CASE d # c \/ q = r
    BY <1>5, <2>1, <2>2, <2>3, <2>5
  <2> QED
    BY <2>4, <2>5
<1>10. CountsAreExact'
  <2>1. \A i \in 1..Len(feed) : ~IsTrade(i, r)
    BY <1>7 DEF IsTrade
  <2> QED
    BY <1>2, <1>4, <1>5, <2>1 DEF EndInv, CountsAreExact, Latest, Preceded, IsTrade
<1>11. EndsAreComing'
  <2>1. \A i \in 1..Len(feed) : IsEnd(feed[i])' <=> IsEnd(feed[i])
    BY <1>2, <1>4, <1>7 DEF IsEnd
  <2>2. \A q \in Refs : order'[q].state = "done" => q # r /\ order[q].state = "done"
    BY <1>4
  <2> QED
    BY <1>2, <1>5, <2>1, <2>2 DEF EndInv, EndsAreComing, EndIsAhead, Erasing, Empty
<1>12. UnsentIsEmpty'
  <2>1. \A q \in Refs : order'[q].state \in {"free", "failed"} => q # r /\ order[q].state \in {"free", "failed"}
    BY <1>4
  <2> QED
    BY <1>2, <1>5, <2>1 DEF EndInv, UnsentIsEmpty, Empty
<1>13. EventsSayTheEnd'
  <2> SUFFICES ASSUME NEW e \in Told
               PROVE  /\ e.status = "Filled" => e.filled = order'[e.ref].volume /\ e.filled > 0
                      /\ IsTerminalStatus(e.status) => order'[e.ref].state = "done"
    BY <1>6 DEF EventsSayTheEnd
  <2>1. /\ e.status = "Filled" => e.filled = order[e.ref].volume /\ e.filled > 0
        /\ IsTerminalStatus(e.status) => order[e.ref].state = "done"
    BY DEF EndInv, EventsSayTheEnd
  <2>2. IsTerminalStatus(e.status) => e.ref # r
    BY <1>3, <2>1
  <2>3. e.status = "Filled" => IsTerminalStatus(e.status)
    BY DEF IsTerminalStatus
  <2> QED
    BY <1>4, <1>7, <2>1, <2>2, <2>3
<1>14. WorkIsSeen'
  <2>1. \A q \in Refs : order'[q].state = "working" => order[q].state = "working"
    BY <1>4
  <2> QED
    BY <1>2, <1>6, <2>1 DEF EndInv, WorkIsSeen
<1>15. FillsAreComing'
  <2>1. \A q \in Refs : order'[q].traded > 0 => q # r /\ order[q].traded > 0 /\ order'[q] = order[q]
    BY <1>4
  <2> QED
    BY <1>2, <1>6, <2>1 DEF EndInv, FillsAreComing, IsTrade
<1> QED
  BY <1>8, <1>9, <1>10, <1>11, <1>12, <1>13, <1>14, <1>15 DEF EndInv

-----------------------------------------------------------------------------
(* The callback thread.                                                    *)

LEMMA PushSpiEnds == IndInv /\ EndInv /\ PushSpiEvent => EndInv'
<1> SUFFICES ASSUME IndInv, EndInv, PushSpiEvent PROVE EndInv'
  OBVIOUS
<1>1. /\ order' = order /\ feed' = feed /\ main' = main /\ batch' = batch
      /\ orderToClientId' = orderToClientId /\ clientIdToOrderRef' = clientIdToOrderRef
      /\ requestedVolume' = requestedVolume /\ cumulativeTradeVolume' = cumulativeTradeVolume
      /\ appliedByClient' = appliedByClient /\ opened' = opened
  BY DEF PushSpiEvent, brokerVars, gatewayMaps, mainVars, books
<1>2. /\ spi.pc = "push" /\ spi.event \in Event /\ PushEvent(spi.event)
      /\ \/ spi'.pc = "idle" /\ ~IsTerminalStatus(spi.event.status)
         \/ spi'.pc = "erase" /\ spi'.event = spi.event
  BY ToldTyped DEF PushSpiEvent, IndInv, TypeOK, TypeOfThreads, NoCallback
<1>3. Told' = Told
  BY <1>1, <1>2, QueueGrows DEF IndInv, Told
<1>4. SentOnly' /\ MapsMatch' /\ SpiNamesClient'
  BY <1>1, <1>2 DEF EndInv, SentOnly, MapsMatch, SpiNamesClient
<1>5. CountsAreExact'
  BY <1>1 DEF EndInv, CountsAreExact, Latest, Preceded, IsTrade
<1>6. EndsAreComing'
  BY <1>1, <1>2 DEF EndInv, EndsAreComing, EndIsAhead, Erasing, Empty, IsEnd
<1>7. UnsentIsEmpty'
  BY <1>1 DEF EndInv, UnsentIsEmpty, Empty
<1>8. BooksInv'
  BY <1>1, <1>3, BooksRest DEF EndInv, BooksInv, IndInv
<1> QED
  BY <1>4, <1>5, <1>6, <1>7, <1>8 DEF EndInv, BooksInv

LEMMA EraseTerminalEnds == IndInv /\ EndInv /\ EraseTerminal => EndInv'
<1> SUFFICES ASSUME IndInv, EndInv, EraseTerminal PROVE EndInv'
  OBVIOUS
<1>1. /\ order' = order /\ feed' = feed /\ main' = main /\ batch' = batch /\ pendingEvents' = pendingEvents
      /\ appliedByClient' = appliedByClient /\ opened' = opened
      /\ EraseOrder(spi.event.ref, spi.event.client)
  BY DEF EraseTerminal, brokerVars, mainVars, books
<1>2. /\ spi.pc = "erase" /\ spi'.pc = "idle"
      /\ spi.event.ref \in Refs /\ spi.event.client = orderToClientId[spi.event.ref]
      /\ spi.event.client \in Clients \union {NoClient}
  <2>1. spi.pc = "erase" /\ spi'.pc = "idle"
    BY DEF EraseTerminal, NoCallback
  <2>2. spi.event \in Event
    BY <2>1, ToldTyped DEF IndInv
  <2> QED
    BY <2>1, <2>2, EventsTyped DEF EndInv, SpiNamesClient, IndInv
<1>3. GatewayInv' /\ UnsentIsEmpty'
  BY <1>1, <1>2, EraseEnds
<1>4. Told' = Told
  BY <1>1, <1>2 DEF Told, Waiting
<1>5. BooksInv'
  BY <1>1, <1>4, BooksRest DEF EndInv, BooksInv, IndInv
<1> QED
  BY <1>3, <1>5 DEF EndInv, GatewayInv, BooksInv

\* The trade report that comes next continues the sum without a gap.
LEMMA HeadContinues ==
    ASSUME IndInv, EndInv, feed # <<>>, Head(feed).kind = "RtnTrade"
    PROVE  /\ IsTrade(1, Head(feed).ref) /\ orderToClientId[Head(feed).ref] # NoClient
           /\ cumulativeTradeVolume[Head(feed).ref] + Head(feed).volume = Head(feed).traded
           /\ Head(feed).volume > 0 /\ Head(feed).traded <= order[Head(feed).ref].traded
<1>1. Head(feed) = feed[1] /\ 1 \in 1..Len(feed) /\ Head(feed).ref \in Refs /\ Len(feed) \in Nat
  <2>1. feed \in Seq(FeedMessage)
    BY DEF IndInv, TypeOK, TypeOfBroker
  <2> QED
    BY <2>1, TailShifts, MessagesTyped DEF IndInv
<1>2. IsTrade(1, Head(feed).ref)
  BY <1>1 DEF IsTrade
<1>3. /\ orderToClientId[Head(feed).ref] # NoClient
      /\ feed[1].volume > 0 /\ feed[1].traded <= order[Head(feed).ref].traded
  BY <1>1, <1>2 DEF IndInv, TradesInOrder
<1>4. Preceded(1, Head(feed).ref)
  BY <1>1, <1>2, <1>3 DEF EndInv, CountsAreExact
<1> QED
  BY <1>1, <1>2, <1>3, <1>4 DEF Preceded

\* Taking a message keeps the counts exact: a report that is counted becomes
\* the sum that the next one continues.
LEMMA TakingKeepsCounts ==
    ASSUME IndInv, EndInv, feed # <<>>, feed' = Tail(feed), order' = order,
           orderToClientId' = orderToClientId, NEW r \in Refs, r = Head(feed).ref,
           \A q \in Refs : q # r => cumulativeTradeVolume'[q] = cumulativeTradeVolume[q],
           cumulativeTradeVolume'[r] = IF Head(feed).kind = "RtnTrade"
                                       THEN cumulativeTradeVolume[r] + Head(feed).volume
                                       ELSE cumulativeTradeVolume[r]
    PROVE  CountsAreExact'
<1>1. /\ Head(feed) = feed[1] /\ 1 \in 1..Len(feed) /\ Len(feed) \in Nat
      /\ Len(feed') = Len(feed) - 1
      /\ \A i \in 1..Len(feed') : i + 1 \in 1..Len(feed) /\ feed'[i] = feed[i + 1]
  BY TakesHead DEF IndInv
<1> SUFFICES ASSUME NEW q \in Refs, orderToClientId[q] # NoClient
             PROVE  /\ Latest(q)'
                    /\ \A i \in 1..Len(feed') : IsTrade(i, q)' => Preceded(i, q)'
  BY DEF CountsAreExact
<1>2. /\ Latest(q)
      /\ \A i \in 1..Len(feed) : IsTrade(i, q) => Preceded(i, q)
  BY DEF EndInv, CountsAreExact
<1>3. /\ \A i \in 1..Len(feed') : IsTrade(i, q)' <=> IsTrade(i + 1, q)
      /\ \A j \in 1..Len(feed) : j # 1 => j - 1 \in 1..Len(feed') /\ feed'[j - 1] = feed[j] /\ (j - 1) + 1 = j
  <2>1. \A j \in 1..Len(feed) : j # 1 => j - 1 \in 1..Len(feed') /\ (j - 1) + 1 = j
    BY <1>1
  <2> QED
    BY <1>1, <2>1 DEF IsTrade
<1>4. CASE ~IsTrade(1, q)
  <2>1. cumulativeTradeVolume'[q] = cumulativeTradeVolume[q]
    BY <1>1, <1>4 DEF IsTrade
  <2>2. Latest(q)'
    <3>1. \A j \in 1..Len(feed) : IsTrade(j, q) => j # 1
      BY <1>4
    <3> QED
      BY <1>2, <1>3, <2>1, <3>1, ZenonT(60) DEF Latest
  <2>3. ASSUME NEW i \in 1..Len(feed'), IsTrade(i, q)' PROVE Preceded(i, q)'
    <3>1. i + 1 \in 1..Len(feed) /\ feed'[i] = feed[i + 1] /\ IsTrade(i + 1, q) /\ Preceded(i + 1, q)
      BY <1>1, <1>2, <1>3, <2>3
    <3>2. CASE cumulativeTradeVolume[q] + feed[i + 1].volume = feed[i + 1].traded
      BY <2>1, <3>1, <3>2 DEF Preceded
    <3>3. ASSUME NEW j \in 1..Len(feed), j < i + 1, IsTrade(j, q),
                 feed[j].traded + feed[i + 1].volume = feed[i + 1].traded
          PROVE  Preceded(i, q)'
      <4>1. j # 1
        BY <1>4, <3>3
      <4>2. j - 1 \in 1..Len(feed') /\ feed'[j - 1] = feed[j] /\ IsTrade(j - 1, q)' /\ j - 1 < i
        BY <1>1, <1>3, <3>3, <4>1
      <4> QED
        BY <3>1, <3>3, <4>2 DEF Preceded
    <3> QED
      BY <3>1, <3>2, <3>3 DEF Preceded
  <2> QED
    BY <2>2, <2>3
<1>5. CASE IsTrade(1, q)
  <2>1. /\ q = r /\ Head(feed).kind = "RtnTrade"
        /\ cumulativeTradeVolume'[q] = feed[1].traded
        /\ cumulativeTradeVolume[q] + feed[1].volume = feed[1].traded
        /\ feed[1].volume > 0 /\ feed[1].traded <= order[q].traded
    BY <1>1, <1>5, HeadContinues DEF IsTrade
  <2>2. /\ cumulativeTradeVolume[q] \in Nat /\ order[q].traded \in Nat
        /\ \A i \in 1..Len(feed) : feed[i].volume \in Nat /\ feed[i].traded \in Nat
    BY OrdersTyped, MessagesTyped DEF IndInv
  <2>3. Latest(q)'
    <3>1. cumulativeTradeVolume[q] # order[q].traded
      BY <1>1, <2>1, <2>2
    <3>2. PICK j \in 1..Len(feed) : IsTrade(j, q) /\ feed[j].traded = order[q].traded
      BY <1>2, <3>1 DEF Latest
    <3>3. CASE j = 1
      BY <2>1, <3>2, <3>3 DEF Latest
    <3>4. CASE j # 1
      <4>1. j - 1 \in 1..Len(feed') /\ feed'[j - 1] = feed[j] /\ IsTrade(j - 1, q)'
        BY <1>3, <3>2, <3>4
      <4> QED
        BY <3>2, <4>1 DEF Latest
    <3> QED
      BY <3>3, <3>4
  <2>4. ASSUME NEW i \in 1..Len(feed'), IsTrade(i, q)' PROVE Preceded(i, q)'
    <3>1. i + 1 \in 1..Len(feed) /\ feed'[i] = feed[i + 1] /\ IsTrade(i + 1, q) /\ Preceded(i + 1, q)
      BY <1>1, <1>2, <1>3, <2>4
    <3>2. feed[1].traded + feed[i + 1].volume <= feed[i + 1].traded
      <4>1. 1 < i + 1
        BY <1>1
      <4> QED
        BY <1>1, <1>5, <3>1, <4>1 DEF IndInv, TradesInOrder
    <3>3. cumulativeTradeVolume[q] + feed[i + 1].volume # feed[i + 1].traded
      BY <1>1, <2>1, <2>2, <3>1, <3>2
    <3>4. PICK j \in 1..Len(feed) : j < i + 1 /\ IsTrade(j, q)
                                   /\ feed[j].traded + feed[i + 1].volume = feed[i + 1].traded
      BY <3>1, <3>3 DEF Preceded
    <3>5. CASE j = 1
      BY <2>1, <3>1, <3>4, <3>5 DEF Preceded
    <3>6. CASE j # 1
      <4>1. j - 1 \in 1..Len(feed') /\ feed'[j - 1] = feed[j] /\ IsTrade(j - 1, q)' /\ j - 1 < i
        BY <1>1, <1>3, <3>4, <3>6
      <4> QED
        BY <3>1, <3>4, <4>1 DEF Preceded
    <3> QED
      BY <3>5, <3>6
  <2> QED
    BY <2>3, <2>4
<1> QED
  BY <1>4, <1>5

\* What every callback that reads a message does: it takes the message off the
\* feed, may count it, and decides on an event or on none.
TakesMessage(r, e) ==
    /\ feed # <<>> /\ feed' = Tail(feed) /\ spi.pc = "idle" /\ Head(feed).ref = r
    /\ order' = order /\ main' = main /\ pendingEvents' = pendingEvents /\ batch' = batch
    /\ orderToClientId' = orderToClientId /\ clientIdToOrderRef' = clientIdToOrderRef
    /\ appliedByClient' = appliedByClient /\ opened' = opened
    /\ \A q \in Refs : q # r => /\ requestedVolume'[q] = requestedVolume[q]
                               /\ cumulativeTradeVolume'[q] = cumulativeTradeVolume[q]
    /\ cumulativeTradeVolume'[r] = IF Head(feed).kind = "RtnTrade"
                                   THEN cumulativeTradeVolume[r] + Head(feed).volume
                                   ELSE cumulativeTradeVolume[r]
    /\ e.ref = r /\ e.client = orderToClientId[r]

\* What the event owes to the message.
SaysWhatItShould(r, e) ==
    /\ spi' = [pc |-> "push", event |-> e] /\ e.status = "Filled" => e.filled = order[r].volume /\ e.filled > 0
    /\ IsEnd(Head(feed)) => spi' = [pc |-> "push", event |-> e] /\ IsTerminalStatus(e.status)
    /\ Head(feed).kind = "RtnTrade" => /\ spi' = [pc |-> "push", event |-> e]
                                       /\ IsFillStatus(e.status) /\ e.filled = Head(feed).traded
    /\ Head(feed).kind = "RtnOrder" /\ Head(feed).status = "Accepted" =>
            spi' = [pc |-> "push", event |-> e] /\ ~IsTerminalStatus(e.status)

LEMMA TakeEnds ==
    ASSUME IndInv, IndInv', EndInv, NEW r \in Refs, NEW e \in Event,
           TakesMessage(r, e), SaysWhatItShould(r, e),
           spi' = spi \/ spi' = [pc |-> "push", event |-> e]
    PROVE  EndInv'
<1> USE DEF TakesMessage
<1>1. /\ Head(feed) = feed[1] /\ 1 \in 1..Len(feed) /\ Len(feed) \in Nat
      /\ Len(feed') = Len(feed) - 1
      /\ \A i \in 1..Len(feed') : i + 1 \in 1..Len(feed) /\ feed'[i] = feed[i + 1]
      /\ \A i \in 1..Len(feed) : feed[i].ref \in Refs
  BY TakesHead, MessagesTyped DEF IndInv
<1>2. \A j \in 1..Len(feed) : j # 1 => j - 1 \in 1..Len(feed') /\ feed'[j - 1] = feed[j]
  <2>1. \A j \in 1..Len(feed) : j # 1 => j - 1 \in 1..Len(feed') /\ (j - 1) + 1 = j
    BY <1>1
  <2> QED
    BY <1>1, <2>1
<1>3. order[r].state \in {"working", "done"}
  BY <1>1 DEF EndInv, SentOnly
<1>4. CountsAreExact'
  BY TakingKeepsCounts
<1>5. SentOnly' /\ MapsMatch' /\ SpiNamesClient'
  <2>1. SentOnly'
    BY <1>1, <1>3 DEF EndInv, SentOnly
  <2>2. MapsMatch'
    BY DEF EndInv, MapsMatch
  <2>3. SpiNamesClient'
    BY DEF SpiNamesClient
  <2> QED
    BY <2>1, <2>2, <2>3
<1>6. EndsAreComing'
  <2> SUFFICES ASSUME NEW q \in Refs, order[q].state = "done"
               PROVE  /\ EndIsAhead(q)'
                      /\ (\A i \in 1..Len(feed') : feed'[i].ref # q) => Empty(q)' \/ Erasing(q)'
    BY DEF EndsAreComing
  <2>1. /\ EndIsAhead(q)
        /\ (\A i \in 1..Len(feed) : feed[i].ref # q) => Empty(q)
    BY DEF EndInv, EndsAreComing, Erasing
  <2>2. EndIsAhead(q)'
    <3> SUFFICES ASSUME NEW i \in 1..Len(feed'), feed'[i].ref = q
                 PROVE  \E j \in 1..Len(feed') : j >= i /\ feed'[j].ref = q /\ IsEnd(feed[j])'
      BY DEF EndIsAhead
    <3>1. i + 1 \in 1..Len(feed) /\ feed[i + 1].ref = q
      BY <1>1
    <3>2. PICK j \in 1..Len(feed) : j >= i + 1 /\ feed[j].ref = q /\ IsEnd(feed[j])
      BY <2>1, <3>1 DEF EndIsAhead
    <3>3. j - 1 \in 1..Len(feed') /\ feed'[j - 1] = feed[j] /\ j - 1 >= i
      BY <1>1, <1>2, <3>2
    <3>4. IsEnd(feed[j - 1])'
      BY <3>2, <3>3 DEF IsEnd
    <3> QED
      BY <3>2, <3>3, <3>4
  <2>3. ASSUME \A i \in 1..Len(feed') : feed'[i].ref # q PROVE Empty(q)' \/ Erasing(q)'
    <3>1. \A j \in 1..Len(feed) : feed[j].ref = q => j = 1
      BY <1>2, <2>3
    <3>2. CASE q = r
      <4>1. IsEnd(feed[1])
        BY <1>1, <2>1, <3>1, <3>2 DEF EndIsAhead
      <4> QED
        BY <1>1, <3>2, <4>1 DEF SaysWhatItShould, Erasing
    <3>3. CASE q # r
      <4>1. Empty(q)
        BY <1>1, <2>1, <3>1, <3>3
      <4> QED
        BY <3>3, <4>1 DEF Empty
    <3> QED
      BY <3>2, <3>3
  <2> QED
    BY <2>2, <2>3
<1>7. UnsentIsEmpty'
  BY <1>3 DEF EndInv, UnsentIsEmpty, Empty
<1>8. /\ spi' = spi => Told' = Told
      /\ spi' = [pc |-> "push", event |-> e] => Told' = Told \union {e}
  BY DEF Told, Waiting
<1>9. EventsSayTheEnd'
  <2>1. spi' = [pc |-> "push", event |-> e] /\ IsTerminalStatus(e.status) => order[r].state = "done"
    BY DEF IndInv, ErasureIsFinal
  <2> QED
    BY <1>8, <2>1 DEF EndInv, EventsSayTheEnd, SaysWhatItShould
<1>10. WorkIsSeen'
  <2> SUFFICES ASSUME NEW q \in Refs, order[q].state = "working"
               PROVE  \/ q \in opened
                      \/ \E d \in Told' : d.ref = q /\ ~IsTerminalStatus(d.status)
                      \/ \E i \in 1..Len(feed') : feed'[i].ref = q /\ feed'[i].kind = "RtnOrder"
                                                 /\ feed'[i].status = "Accepted"
    BY DEF WorkIsSeen
  <2>1. \/ q \in opened
        \/ \E d \in Told : d.ref = q /\ ~IsTerminalStatus(d.status)
        \/ \E i \in 1..Len(feed) : feed[i].ref = q /\ feed[i].kind = "RtnOrder" /\ feed[i].status = "Accepted"
    BY DEF EndInv, WorkIsSeen
  <2>2. CASE feed[1].ref = q /\ feed[1].kind = "RtnOrder" /\ feed[1].status = "Accepted"
    BY <1>1, <1>8, <2>2 DEF SaysWhatItShould
  <2>3. CASE ~(feed[1].ref = q /\ feed[1].kind = "RtnOrder" /\ feed[1].status = "Accepted")
    BY <1>2, <1>8, <2>1, <2>3
  <2> QED
    BY <2>2, <2>3
<1>11. FillsAreComing'
  <2> SUFFICES ASSUME NEW q \in Refs, order[q].traded > 0
               PROVE  /\ order[q].client # NoClient
                      /\ \/ appliedByClient[order[q].client] = order[q].traded
                         \/ \E d \in Told' : d.ref = q /\ IsFillStatus(d.status) /\ d.filled = order[q].traded
                         \/ \E i \in 1..Len(feed') : IsTrade(i, q)' /\ feed'[i].traded = order[q].traded
    BY DEF FillsAreComing
  <2>1. /\ order[q].client # NoClient
        /\ \/ appliedByClient[order[q].client] = order[q].traded
           \/ \E d \in Told : d.ref = q /\ IsFillStatus(d.status) /\ d.filled = order[q].traded
           \/ \E i \in 1..Len(feed) : IsTrade(i, q) /\ feed[i].traded = order[q].traded
    BY DEF EndInv, FillsAreComing
  <2>2. CASE IsTrade(1, q) /\ feed[1].traded = order[q].traded
    BY <1>1, <1>8, <2>1, <2>2 DEF SaysWhatItShould, IsTrade
  <2>3. CASE ~(IsTrade(1, q) /\ feed[1].traded = order[q].traded)
    BY <1>2, <1>8, <2>1, <2>3 DEF IsTrade
  <2> QED
    BY <2>2, <2>3
<1> QED
  BY <1>4, <1>5, <1>6, <1>7, <1>9, <1>10, <1>11 DEF EndInv

LEMMA ReportEnds == IndInv /\ IndInv' /\ EndInv /\ (OnRspOrderInsert \/ OnRtnOrder) => EndInv'
<1> SUFFICES ASSUME IndInv, IndInv', EndInv, OnRspOrderInsert \/ OnRtnOrder PROVE EndInv'
  OBVIOUS
<1> DEFINE m == Head(feed)
           status == IF m.kind = "RspOrderInsert" THEN "Rejected" ELSE m.status
           f == [ref |-> m.ref, client |-> orderToClientId[m.ref], status |-> status, filled |-> 0]
<1>1. /\ feed # <<>> /\ feed' = Tail(feed) /\ spi.pc = "idle" /\ m.kind \in {"RspOrderInsert", "RtnOrder"}
      /\ order' = order /\ main' = main /\ pendingEvents' = pendingEvents /\ batch' = batch
      /\ orderToClientId' = orderToClientId /\ clientIdToOrderRef' = clientIdToOrderRef
      /\ cumulativeTradeVolume' = cumulativeTradeVolume
      /\ appliedByClient' = appliedByClient /\ opened' = opened
  BY DEF OnRspOrderInsert, OnRtnOrder, Incoming, gatewayMaps, mainVars, books
<1>2. /\ m = feed[1] /\ 1 \in 1..Len(feed) /\ m.ref \in Refs /\ feed[1] \in FeedMessage
      /\ orderToClientId[m.ref] \in Clients \union {NoClient}
  <2>1. feed \in Seq(FeedMessage)
    BY DEF IndInv, TypeOK, TypeOfBroker
  <2> QED
    BY <1>1, <2>1, TailShifts, MessagesTyped, OrdersTyped DEF IndInv
<1>3. m.kind = "RtnOrder" /\ IsFillStatus(m.status) => m.traded > 0
  BY <1>1, <1>2 DEF IndInv, EndsComeLast, NothingFollows
<1>4. PICK e \in Event : e = f
  <2>1. status \in Status
    BY <1>2 DEF FeedMessage, Status
  <2> HIDE DEF status
  <2>2. f \in Event
    BY <1>2, <2>1 DEF Event
  <2> QED
    BY <2>2
<1>5. PICK r \in Refs : r = m.ref
  BY <1>2
<1>6. \/ spi' = spi /\ m.kind = "RtnOrder" /\ IsFillStatus(m.status)
      \/ spi' = [pc |-> "push", event |-> e] /\ ~IsFillStatus(status)
  BY <1>3, <1>4 DEF OnRspOrderInsert, OnRtnOrder, Incoming, StartPush, IsFillStatus
<1>7. \A q \in Refs : q # r => requestedVolume'[q] = requestedVolume[q]
  BY <1>5 DEF OnRspOrderInsert, OnRtnOrder, gatewayMaps, IndInv, TypeOK, TypeOfGateway
<1>8. TakesMessage(r, e)
  BY <1>1, <1>4, <1>5, <1>7 DEF TakesMessage
<1>9. SaysWhatItShould(r, e)
  BY <1>1, <1>4, <1>6 DEF SaysWhatItShould, IsEnd, IsFillStatus, IsTerminalStatus
<1> QED
  BY <1>6, <1>8, <1>9, TakeEnds

\* The report that completes the volume asked for is the one called Filled.
LEMMA TradeReportEnds == IndInv /\ IndInv' /\ EndInv /\ OnRtnTrade => EndInv'
<1> SUFFICES ASSUME IndInv, IndInv', EndInv, OnRtnTrade PROVE EndInv'
  OBVIOUS
<1>1. /\ feed # <<>> /\ feed' = Tail(feed) /\ spi.pc = "idle" /\ Head(feed).kind = "RtnTrade"
      /\ order' = order /\ main' = main /\ pendingEvents' = pendingEvents /\ batch' = batch
      /\ orderToClientId' = orderToClientId /\ clientIdToOrderRef' = clientIdToOrderRef
      /\ requestedVolume' = requestedVolume
      /\ appliedByClient' = appliedByClient /\ opened' = opened
  BY DEF OnRtnTrade, Incoming, mainVars, books
<1>2. PICK r \in Refs : r = Head(feed).ref
  BY <1>1, TakesHead DEF IndInv
<1>3. /\ Head(feed).volume \in Nat /\ Head(feed).traded \in Nat
      /\ order[r].volume \in Nat /\ order[r].traded \in Nat /\ order[r].traded <= order[r].volume
      /\ orderToClientId[r] \in Clients \union {NoClient} /\ cumulativeTradeVolume[r] \in Nat
  BY <1>1, TakesHead, OrdersTyped DEF IndInv, BrokerCounts
<1>4. /\ cumulativeTradeVolume[r] + Head(feed).volume = Head(feed).traded
      /\ Head(feed).volume > 0 /\ Head(feed).traded <= order[r].traded
      /\ requestedVolume[r] = order[r].volume
  BY <1>1, <1>2, HeadContinues DEF IndInv, MapsAgree
<1> DEFINE full == OrderFilled(cumulativeTradeVolume[r] + Head(feed).volume, requestedVolume[r], Head(feed).volume)
           f == [ref |-> r, client |-> orderToClientId[r],
                 status |-> IF full THEN "Filled" ELSE "PartiallyFilled", filled |-> Head(feed).traded]
<1>5. full <=> Head(feed).traded = order[r].volume
  BY <1>3, <1>4 DEF OrderFilled, MaxOf
<1>6. PICK e \in Event : e = f
  <2> HIDE DEF full
  <2>1. f \in Event
    BY <1>3 DEF Event, Status
  <2> QED
    BY <2>1
<1>7. spi' = [pc |-> "push", event |-> e]
  BY <1>2, <1>4, <1>6 DEF OnRtnTrade, StartPush
<1>8. /\ cumulativeTradeVolume'[r] = cumulativeTradeVolume[r] + Head(feed).volume
      /\ \A q \in Refs : q # r => cumulativeTradeVolume'[q] = cumulativeTradeVolume[q]
  BY <1>2 DEF OnRtnTrade, IndInv, TypeOK, TypeOfGateway
<1> HIDE DEF full
<1>9. TakesMessage(r, e)
  BY <1>1, <1>2, <1>6, <1>8 DEF TakesMessage
<1>10. SaysWhatItShould(r, e)
  <2>1. IsEnd(Head(feed)) => full
    BY <1>1, <1>2, <1>5 DEF IsEnd
  <2>2. e.status \in {"Filled", "PartiallyFilled"} /\ e.filled = Head(feed).traded
    BY <1>6
  <2>3. e.status = "Filled" <=> full
    BY <1>6
  <2>4. Head(feed).traded > 0
    BY <1>3, <1>4
  <2> QED
    BY <1>1, <1>5, <1>7, <2>1, <2>2, <2>3, <2>4 DEF SaysWhatItShould, IsFillStatus, IsTerminalStatus
<1> QED
  BY <1>7, <1>9, <1>10, TakeEnds

-----------------------------------------------------------------------------
(* The broker.                                                             *)

\* What a broker's step on one order does: it moves the order on and says so
\* behind what it said before, in one message or two.
SpeaksOf(r) ==
    /\ order[r].state \in {"sent", "working"} /\ order'[r].state \in {"working", "done"}
    /\ order'[r].client = order[r].client /\ order'[r].volume = order[r].volume
    /\ \A q \in Refs : q # r => order'[q] = order[q]
    /\ UNCHANGED <<gatewayMaps, pendingEvents, spi, mainVars, batch, books>>
    /\ Len(feed') \in Nat /\ Len(feed') > Len(feed)
    /\ \A i \in 1..Len(feed) : feed'[i] = feed[i]
    /\ \A i \in (Len(feed) + 1)..Len(feed') : feed'[i].ref = r

SpeaksExactly(r) ==
    /\ order'[r].state = "done" => IsEnd(feed[Len(feed)])'
    /\ order[r].state = "sent" /\ order'[r].state = "working" =>
            feed'[Len(feed')].kind = "RtnOrder" /\ feed'[Len(feed')].status = "Accepted"
    /\ \A i \in (Len(feed) + 1)..Len(feed') : feed'[i].kind = "RtnTrade" =>
            /\ order[r].traded + feed'[i].volume = feed'[i].traded
            /\ \A j \in (Len(feed) + 1)..Len(feed') : feed'[j].kind = "RtnTrade" => i = j
    /\ \/ order'[r].traded = order[r].traded
       \/ feed'[Len(feed')].kind = "RtnTrade" /\ feed'[Len(feed')].traded = order'[r].traded

LEMMA SpeakEnds ==
    ASSUME IndInv, IndInv', EndInv, NEW r \in Refs, SpeaksOf(r), SpeaksExactly(r)
    PROVE  EndInv'
<1>1. /\ Len(feed) \in Nat /\ Len(feed') \in Nat /\ Len(feed') > Len(feed)
      /\ \A i \in 1..Len(feed) : feed'[i] = feed[i] /\ feed[i].ref \in Refs /\ i \in 1..Len(feed')
      /\ \A i \in 1..Len(feed') : i \in 1..Len(feed) \/ (i \in (Len(feed) + 1)..Len(feed') /\ feed'[i].ref = r)
      /\ Len(feed') \in 1..Len(feed') /\ Len(feed') \in (Len(feed) + 1)..Len(feed')
      /\ feed'[Len(feed')].ref = r
  <2>1. Len(feed) \in Nat /\ \A i \in 1..Len(feed) : feed[i].ref \in Refs
    BY MessagesTyped DEF IndInv
  <2>2. Len(feed') \in Nat /\ Len(feed') > Len(feed)
    BY DEF SpeaksOf
  <2>3. \A i \in 1..Len(feed') : i \in 1..Len(feed) \/ i \in (Len(feed) + 1)..Len(feed')
    BY <2>1, <2>2
  <2>4. Len(feed') \in 1..Len(feed') /\ Len(feed') \in (Len(feed) + 1)..Len(feed')
    BY <2>1, <2>2
  <2>5. \A i \in 1..Len(feed) : i \in 1..Len(feed')
    BY <2>1, <2>2
  <2> QED
    BY <2>1, <2>2, <2>3, <2>4, <2>5 DEF SpeaksOf
<1>2. /\ orderToClientId' = orderToClientId /\ clientIdToOrderRef' = clientIdToOrderRef
      /\ requestedVolume' = requestedVolume /\ cumulativeTradeVolume' = cumulativeTradeVolume
      /\ spi' = spi /\ main' = main /\ appliedByClient' = appliedByClient /\ opened' = opened
      /\ Told' = Told
  BY DEF SpeaksOf, gatewayMaps, mainVars, books, Told, Waiting
<1>3. /\ order[r].state \in {"sent", "working"} /\ order'[r].state \in {"working", "done"}
      /\ order'[r].client = order[r].client /\ order'[r].volume = order[r].volume
      /\ \A q \in Refs : q # r => order'[q] = order[q]
  BY DEF SpeaksOf
<1>4. /\ spi.pc # "idle" => spi.event.ref \in Refs
      /\ \A e \in Told : e.ref \in Refs
  BY ToldTyped DEF IndInv
<1>5. SentOnly' /\ MapsMatch' /\ SpiNamesClient'
  <2>1. \A q \in Refs : order[q].state \in {"working", "done"} => order'[q].state \in {"working", "done"}
    BY <1>3
  <2>2. SentOnly'
    BY <1>1, <1>2, <1>3, <1>4, <2>1 DEF EndInv, SentOnly
  <2> QED
    BY <1>2, <2>2 DEF EndInv, MapsMatch, SpiNamesClient
<1>6. CountsAreExact'
  <2> SUFFICES ASSUME NEW q \in Refs, orderToClientId[q] # NoClient
               PROVE  /\ Latest(q)'
                      /\ \A i \in 1..Len(feed') : IsTrade(i, q)' => Preceded(i, q)'
    BY <1>2 DEF CountsAreExact
  <2>1. /\ Latest(q)
        /\ \A i \in 1..Len(feed) : IsTrade(i, q) => Preceded(i, q)
    BY DEF EndInv, CountsAreExact
  <2>2. \A i \in 1..Len(feed) : IsTrade(i, q)' <=> IsTrade(i, q)
    BY <1>1 DEF IsTrade
  <2>3. \A i \in 1..Len(feed) : IsTrade(i, q) => Preceded(i, q)'
    BY <1>1, <1>2, <2>1, <2>2 DEF Preceded
  <2>4. order'[q].traded = order[q].traded => Latest(q)'
    BY <1>1, <1>2, <2>1, <2>2 DEF Latest
  <2>5. CASE q # r
    BY <1>1, <1>3, <2>2, <2>3, <2>4, <2>5 DEF IsTrade
  <2>6. CASE q = r
    <3>1. Latest(q)'
      BY <1>1, <2>4, <2>6 DEF SpeaksExactly, Latest, IsTrade
    <3>2. ASSUME NEW i \in (Len(feed) + 1)..Len(feed'), IsTrade(i, q)' PROVE Preceded(i, q)'
      <4>1. order[q].traded + feed'[i].volume = feed'[i].traded
        BY <2>6, <3>2 DEF SpeaksExactly, IsTrade
      <4>2. CASE cumulativeTradeVolume[q] = order[q].traded
        BY <1>2, <4>1, <4>2 DEF Preceded
      <4>3. ASSUME NEW j \in 1..Len(feed), IsTrade(j, q), feed[j].traded = order[q].traded
            PROVE  Preceded(i, q)'
        <5>1. j < i /\ j \in 1..Len(feed') /\ feed'[j] = feed[j] /\ IsTrade(j, q)'
          BY <1>1, <2>2, <4>3
        <5> QED
          BY <4>1, <4>3, <5>1 DEF Preceded
      <4> QED
        BY <2>1, <4>2, <4>3 DEF Latest
    <3> QED
      BY <1>1, <2>2, <2>3, <3>1, <3>2
  <2> QED
    BY <2>5, <2>6
<1>7. EndsAreComing'
  <2>0. \A i \in 1..Len(feed) : IsEnd(feed[i]) <=> IsEnd(feed[i])'
    BY <1>1, <1>3 DEF IsEnd
  <2> SUFFICES ASSUME NEW q \in Refs, order'[q].state = "done"
               PROVE  /\ EndIsAhead(q)'
                      /\ (\A i \in 1..Len(feed') : feed'[i].ref # q) => Empty(q)' \/ Erasing(q)'
    BY DEF EndsAreComing
  <2>1. CASE q = r
    <3>1. EndIsAhead(q)'
      BY <1>1, <2>1 DEF SpeaksExactly, EndIsAhead
    <3> QED
      BY <1>1, <2>1, <3>1
  <2>2. CASE q # r
    <3>1. /\ EndIsAhead(q)
          /\ (\A i \in 1..Len(feed) : feed[i].ref # q) => Empty(q) \/ Erasing(q)
      BY <1>3, <2>2 DEF EndInv, EndsAreComing
    <3>2. EndIsAhead(q)'
      <4> SUFFICES ASSUME NEW i \in 1..Len(feed'), feed'[i].ref = q
                   PROVE  \E j \in 1..Len(feed') : j >= i /\ feed'[j].ref = q /\ IsEnd(feed[j])'
        BY DEF EndIsAhead
      <4>1. i \in 1..Len(feed) /\ feed[i].ref = q
        BY <1>1, <2>2
      <4>2. PICK j \in 1..Len(feed) : j >= i /\ feed[j].ref = q /\ IsEnd(feed[j])
        BY <3>1, <4>1 DEF EndIsAhead
      <4>3. IsEnd(feed[j])'
        BY <1>1, <1>3, <4>2 DEF IsEnd
      <4> QED
        BY <1>1, <4>2, <4>3
    <3>3. (\A i \in 1..Len(feed') : feed'[i].ref # q) => Empty(q)' \/ Erasing(q)'
      BY <1>1, <1>2, <3>1 DEF Empty, Erasing
    <3> QED
      BY <3>2, <3>3
  <2> QED
    BY <2>1, <2>2
<1>8. UnsentIsEmpty'
  <2>1. \A q \in Refs : order'[q].state \in {"free", "failed"} => order[q].state \in {"free", "failed"}
    BY <1>3
  <2> QED
    BY <1>2, <2>1 DEF EndInv, UnsentIsEmpty, Empty
<1>9. EventsSayTheEnd'
  <2>1. \A q \in Refs : order'[q].volume = order[q].volume /\ (order[q].state = "done" => order'[q].state = "done")
    BY <1>3
  <2> QED
    BY <1>2, <1>4, <2>1 DEF EndInv, EventsSayTheEnd
<1>10. WorkIsSeen'
  <2> SUFFICES ASSUME NEW q \in Refs, order'[q].state = "working"
               PROVE  \/ q \in opened
                      \/ \E e \in Told : e.ref = q /\ ~IsTerminalStatus(e.status)
                      \/ \E i \in 1..Len(feed') : feed'[i].ref = q /\ feed'[i].kind = "RtnOrder"
                                                 /\ feed'[i].status = "Accepted"
    BY <1>2 DEF WorkIsSeen
  <2>1. CASE order[q].state = "working"
    BY <1>1, <2>1 DEF EndInv, WorkIsSeen
  <2>2. CASE order[q].state # "working"
    <3>1. q = r /\ order[r].state = "sent"
      BY <1>3, <2>2
    <3> QED
      BY <1>1, <3>1 DEF SpeaksExactly
  <2> QED
    BY <2>1, <2>2
<1>11. FillsAreComing'
  <2> SUFFICES ASSUME NEW q \in Refs, order'[q].traded > 0
               PROVE  /\ order'[q].client # NoClient
                      /\ \/ appliedByClient[order'[q].client] = order'[q].traded
                         \/ \E e \in Told : e.ref = q /\ IsFillStatus(e.status) /\ e.filled = order'[q].traded
                         \/ \E i \in 1..Len(feed') : IsTrade(i, q)' /\ feed'[i].traded = order'[q].traded
    BY <1>2 DEF FillsAreComing
  <2>1. CASE order'[q].traded = order[q].traded
    <3>1. order'[q].client = order[q].client
      BY <1>3
    <3> QED
      BY <1>1, <2>1, <3>1 DEF EndInv, FillsAreComing, IsTrade
  <2>2. CASE order'[q].traded # order[q].traded
    <3>1. q = r
      BY <1>3, <2>2
    <3>2. order'[r].client # NoClient
      BY <1>3 DEF IndInv, MapsAgree
    <3>3. feed'[Len(feed')].kind = "RtnTrade" /\ feed'[Len(feed')].traded = order'[r].traded
      BY <2>2, <3>1 DEF SpeaksExactly
    <3> QED
      BY <1>1, <3>1, <3>2, <3>3 DEF IsTrade
  <2> QED
    BY <2>1, <2>2
<1> QED
  BY <1>5, <1>6, <1>7, <1>8, <1>9, <1>10, <1>11 DEF EndInv

LEMMA BrokerAnswerEnds ==
    ASSUME IndInv, IndInv', EndInv, NEW r \in Refs,
           BrokerAccepts(r) \/ BrokerRefuses(r) \/ BrokerCancels(r)
    PROVE  EndInv'
<1>1. PICK to \in {"working", "done"} :
        /\ order' = [order EXCEPT ![r].state = to]
        /\ order[r].state \in {"sent", "working"}
        /\ UNCHANGED <<gatewayMaps, pendingEvents, spi, mainVars, batch, books>>
        /\ \/ to = "working" /\ feed' = feed \o <<Message("RtnOrder", r, "Accepted", 0, 0)>>
           \/ to = "done" /\ feed' = feed \o <<Message("RspOrderInsert", r, "Rejected", 0, 0),
                                             Message("RspOrderInsert", r, "Rejected", 0, 0)>>
           \/ to = "done" /\ feed' = feed \o <<Message("RtnOrder", r, "Cancelled", 0, order[r].traded)>>
  BY DEF BrokerAccepts, BrokerRefuses, BrokerCancels, BrokerStep
<1>2. feed \in Seq(FeedMessage) /\ Len(feed) \in Nat
  BY DEF IndInv, TypeOK, TypeOfBroker
<1>3. /\ \A q \in Refs : q # r => order'[q] = order[q]
      /\ order'[r].client = order[r].client /\ order'[r].volume = order[r].volume
      /\ order'[r].traded = order[r].traded /\ order'[r].state = to
  BY <1>1, StateMoves DEF IndInv
<1>4. Message("RtnOrder", r, "Accepted", 0, 0) \in FeedMessage
      /\ Message("RspOrderInsert", r, "Rejected", 0, 0) \in FeedMessage
      /\ Message("RtnOrder", r, "Cancelled", 0, order[r].traded) \in FeedMessage
  BY MaxVolumeAssumption DEF Message, FeedMessage, Status, IndInv, TypeOK, TypeOfBroker, OrderRecord
<1>5. ASSUME NEW m \in FeedMessage, feed' = feed \o <<m>>, m.ref = r, m.kind # "RtnTrade",
             to = "done" => m.kind = "RtnOrder" /\ m.status = "Cancelled",
             to = "working" => m.kind = "RtnOrder" /\ m.status = "Accepted"
      PROVE  EndInv'
  <2>1. /\ Len(feed') = Len(feed) + 1 /\ feed'[Len(feed) + 1] = m
        /\ \A i \in 1..Len(feed) : feed'[i] = feed[i]
    BY <1>2, <1>5, AppendOne
  <2>2. \A i \in (Len(feed) + 1)..Len(feed') : i = Len(feed) + 1
    BY <1>2, <2>1
  <2>3. SpeaksOf(r)
    BY <1>1, <1>2, <1>3, <1>5, <2>1, <2>2 DEF SpeaksOf
  <2>4. to = "done" => IsEnd(feed[Len(feed)])'
    BY <1>5, <2>1 DEF IsEnd
  <2>5. SpeaksExactly(r)
    BY <1>3, <1>5, <2>1, <2>2, <2>4 DEF SpeaksExactly
  <2> QED
    BY <2>3, <2>5, SpeakEnds
<1>6. ASSUME NEW m \in FeedMessage, feed' = feed \o <<m, m>>, m.ref = r, m.kind = "RspOrderInsert", to = "done"
      PROVE  EndInv'
  <2>1. /\ Len(feed') = Len(feed) + 2 /\ feed'[Len(feed) + 1] = m /\ feed'[Len(feed) + 2] = m
        /\ \A i \in 1..Len(feed) : feed'[i] = feed[i]
    BY <1>2, <1>6, AppendTwo
  <2>2. \A i \in (Len(feed) + 1)..Len(feed') : i = Len(feed) + 1 \/ i = Len(feed) + 2
    BY <1>2, <2>1
  <2>3. SpeaksOf(r)
    BY <1>1, <1>2, <1>3, <1>6, <2>1, <2>2 DEF SpeaksOf
  <2>4. IsEnd(feed[Len(feed)])'
    BY <1>6, <2>1 DEF IsEnd
  <2>5. SpeaksExactly(r)
    BY <1>3, <1>6, <2>1, <2>2, <2>4 DEF SpeaksExactly
  <2> QED
    BY <2>3, <2>5, SpeakEnds
<1> QED
  BY <1>1, <1>4, <1>5, <1>6 DEF Message

LEMMA BrokerTradeEnds ==
    ASSUME IndInv, IndInv', EndInv, NEW r \in Refs, NEW volume \in 1..MaxVolume, BrokerTrades(r, volume)
    PROVE  EndInv'
<1> DEFINE total == order[r].traded + volume
           full == total = order[r].volume
<1>1. /\ order[r].state = "working" /\ total <= order[r].volume
      /\ order' = [order EXCEPT ![r].traded = total, ![r].state = IF full THEN "done" ELSE "working"]
      /\ UNCHANGED <<gatewayMaps, pendingEvents, spi, mainVars, batch, books>>
  BY DEF BrokerTrades
<1>2. /\ feed \in Seq(FeedMessage) /\ Len(feed) \in Nat
      /\ order[r].traded \in Nat /\ order[r].volume \in 0..MaxVolume
  BY OrdersTyped DEF IndInv, TypeOK, TypeOfBroker, OrderRecord
<1>3. total \in 0..MaxVolume
  BY <1>1, <1>2, MaxVolumeAssumption
<1>4. PICK a \in FeedMessage, b \in FeedMessage :
        /\ feed' = feed \o <<a, b>> /\ a.ref = r /\ a.kind = "RtnOrder"
        /\ b.ref = r /\ b.kind = "RtnTrade" /\ b.volume = volume /\ b.traded = total
  <2> DEFINE aa == Message("RtnOrder", r, IF full THEN "Filled" ELSE "PartiallyFilled", 0, total)
             bb == Message("RtnTrade", r, "Accepted", volume, total)
  <2>1. feed' = feed \o <<aa, bb>>
    BY DEF BrokerTrades
  <2> HIDE DEF full, total
  <2>2. aa \in FeedMessage /\ bb \in FeedMessage
    BY <1>3, MaxVolumeAssumption DEF Message, FeedMessage, Status
  <2>3. aa.ref = r /\ aa.kind = "RtnOrder" /\ bb.ref = r /\ bb.kind = "RtnTrade" /\ bb.volume = volume /\ bb.traded = total
    BY DEF Message
  <2> QED
    BY <2>1, <2>2, <2>3
<1>5. /\ \A q \in Refs : q # r => order'[q] = order[q]
      /\ order'[r].client = order[r].client /\ order'[r].volume = order[r].volume
      /\ order'[r].traded = total /\ order'[r].state = IF full THEN "done" ELSE "working"
  BY <1>1 DEF IndInv, TypeOK, TypeOfBroker, OrderRecord
<1>6. /\ Len(feed') = Len(feed) + 2 /\ feed'[Len(feed) + 1] = a /\ feed'[Len(feed) + 2] = b
      /\ \A i \in 1..Len(feed) : feed'[i] = feed[i]
  BY <1>2, <1>4, AppendTwo
<1>7. \A i \in (Len(feed) + 1)..Len(feed') : i = Len(feed) + 1 \/ i = Len(feed) + 2
  BY <1>2, <1>6
<1>8. SpeaksOf(r)
  <2> HIDE DEF full, total
  <2>1. order'[r].state \in {"working", "done"}
    BY <1>5
  <2>2. Len(feed') \in Nat /\ Len(feed') > Len(feed)
    BY <1>2, <1>6
  <2>3. \A i \in (Len(feed) + 1)..Len(feed') : feed'[i].ref = r
    BY <1>4, <1>6, <1>7
  <2> QED
    BY <1>1, <1>5, <1>6, <2>1, <2>2, <2>3 DEF SpeaksOf
<1>9. order'[r].state = "done" => IsEnd(feed[Len(feed)])'
  BY <1>4, <1>5, <1>6 DEF IsEnd
<1>10. SpeaksExactly(r)
  <2> HIDE DEF full
  <2>1. \A i \in (Len(feed) + 1)..Len(feed') : feed'[i].kind = "RtnTrade" => i = Len(feed) + 2
    BY <1>4, <1>6, <1>7
  <2> QED
    BY <1>1, <1>4, <1>5, <1>6, <1>9, <2>1 DEF SpeaksExactly
<1> QED
  BY <1>8, <1>10, SpeakEnds

-----------------------------------------------------------------------------
(* The theorems.                                                           *)

LEMMA InitEnds == Init => EndInv
<1> SUFFICES ASSUME Init PROVE EndInv
  OBVIOUS
<1>1. Told = {}
  BY DEF Init, Told, Waiting, NoCallback
<1>2. MapsMatch
  BY ClientsAreNamed DEF Init, MapsMatch, NoRef, Refs
<1>3. SentOnly /\ SpiNamesClient /\ CountsAreExact /\ EndsAreComing /\ UnsentIsEmpty
  BY DEF Init, SentOnly, SpiNamesClient, CountsAreExact, EndsAreComing, UnsentIsEmpty, Empty, NoOrder, NoCallback
<1>4. EventsSayTheEnd /\ WorkIsSeen /\ FillsAreComing
  BY <1>1 DEF Init, EventsSayTheEnd, WorkIsSeen, FillsAreComing, NoOrder
<1> QED
  BY <1>2, <1>3, <1>4 DEF EndInv

LEMMA StutterEnds == IndInv /\ EndInv /\ UNCHANGED vars => EndInv'
<1> SUFFICES ASSUME IndInv, EndInv, UNCHANGED vars PROVE EndInv'
  OBVIOUS
<1>1. UNCHANGED <<order, feed, gatewayMaps, spi, main, pendingEvents, batch, appliedByClient, opened>>
  BY DEF vars, brokerVars, mainVars, books
<1>2. Told' = Told
  BY <1>1 DEF Told, Waiting
<1>3. GatewayInv' /\ UnsentIsEmpty'
  BY <1>1, GatewayRests DEF EndInv, GatewayInv
<1>4. BooksInv'
  BY <1>1, <1>2, BooksRest DEF EndInv, BooksInv, IndInv
<1> QED
  BY <1>3, <1>4 DEF EndInv, GatewayInv, BooksInv

LEMMA EndStep == IndInv /\ EndInv /\ [Next]_vars => EndInv'
<1> SUFFICES ASSUME IndInv, EndInv, [Next]_vars PROVE EndInv'
  OBVIOUS
<1>1. IndInv'
  BY StepKeeps
<1>2. CASE Submission
  BY <1>2, InsertEnds, EraseFailedEnds, PushSubmittedEnds DEF Submission
<1>3. CASE EventLoop
  BY <1>3, CancelOrDrainEnds, ApplyEnds DEF EventLoop
<1>4. CASE Callback
  BY <1>1, <1>4, ReportEnds, TradeReportEnds, PushSpiEnds, EraseTerminalEnds DEF Callback
<1>5. CASE Strategy
  BY <1>5, SubmitEnds, CancelOrDrainEnds DEF Strategy
<1>6. CASE Broker
  BY <1>1, <1>6, BrokerAnswerEnds, BrokerTradeEnds DEF Broker
<1>7. CASE UNCHANGED vars
  BY <1>7, StutterEnds
<1> QED
  BY <1>2, <1>3, <1>4, <1>5, <1>6, <1>7 DEF Next

(* What is on its way to the books and what is left of an order in the maps *)
(* are exact in every reachable state: the invariant of the results below.  *)
THEOREM EndsAreTracked == SafeSpec => [](IndInv /\ EndInv)
<1>1. Init => IndInv /\ EndInv
  BY InitHolds, InitEnds
<1>2. IndInv /\ EndInv /\ [Next]_vars => (IndInv /\ EndInv)'
  BY StepKeeps, EndStep
<1> QED
  BY <1>1, <1>2, PTL DEF SafeSpec

LEMMA QuietIsSilent ==
    ASSUME Quiet
    PROVE  Told = {} /\ Len(feed) = 0 /\ main.pc = "idle" /\ spi.pc = "idle"
  BY DEF Quiet, Told, Waiting

(* Fills travel as cumulative volumes through two threads and a table of   *)
(* increments, and none is lost: when nothing is in flight, each lot the    *)
(* broker traded is booked (consume_live_fill_delta, OnRtnTrade).          *)
THEOREM EveryFillIsBooked == SafeSpec => []NothingIsMissing
<1>1. IndInv /\ EndInv => NothingIsMissing
  <2> SUFFICES ASSUME IndInv, EndInv, Quiet, NEW r \in Refs PROVE Booked(r) = order[r].traded
    BY DEF NothingIsMissing
  <2>1. Told = {} /\ Len(feed) = 0
    BY QuietIsSilent
  <2>2. order[r].client \in Clients \union {NoClient} /\ order[r].traded \in Nat /\ appliedByRef[r] = 0
    BY OrdersTyped DEF IndInv, TableIsBehind
  <2>3. order[r].client # NoClient => /\ appliedByClient[order[r].client] \in Nat
                                     /\ appliedByClient[order[r].client] <= order[r].traded
    BY <2>2 DEF IndInv, TableIsBehind, TypeOK, TypeOfBooks
  <2>4. order[r].traded > 0 => /\ order[r].client # NoClient
                               /\ appliedByClient[order[r].client] = order[r].traded
    BY <2>1 DEF EndInv, FillsAreComing
  <2> QED
    BY <2>2, <2>3, <2>4 DEF Booked
<1> QED
  BY <1>1, EndsAreTracked, PTL

(* A working order is listed as open and can be cancelled by its client id: *)
(* nothing erases its entries, whatever else ends beside it.               *)
THEOREM WorkingOrdersStayInReach == SafeSpec => []WorkingOrdersAreReachable
<1>1. IndInv /\ EndInv => WorkingOrdersAreReachable
  <2> SUFFICES ASSUME IndInv, EndInv, Quiet, NEW r \in Refs, order[r].state = "working"
               PROVE  /\ r \in opened /\ orderToClientId[r] = order[r].client
                      /\ clientIdToOrderRef[order[r].client] = r
    BY DEF WorkingOrdersAreReachable
  <2>1. r \in opened
    BY QuietIsSilent DEF EndInv, WorkIsSeen
  <2>2. orderToClientId[r] = order[r].client /\ order[r].client # NoClient
    BY DEF IndInv, MapsAgree
  <2>3. order[r].client \in Clients
    BY <2>2, OrdersTyped DEF IndInv
  <2> QED
    BY <2>1, <2>2, <2>3 DEF EndInv, MapsMatch
<1> QED
  BY <1>1, EndsAreTracked, PTL

(* An order that is over leaves no entry in the gateway's maps, however its *)
(* last callback met the submission of another (the erasures that follow   *)
(* every terminal event and every failed insert).                          *)
THEOREM MapsAreAlwaysReclaimed == SafeSpec => []MapsAreReclaimed
<1>1. IndInv /\ EndInv => MapsAreReclaimed
  <2> SUFFICES ASSUME IndInv, EndInv, Quiet, NEW r \in Refs, order[r].state \in {"free", "done", "failed"}
               PROVE  /\ orderToClientId[r] = NoClient
                      /\ requestedVolume[r] = 0 /\ cumulativeTradeVolume[r] = 0
                      /\ \A c \in Clients : clientIdToOrderRef[c] # r
    BY DEF MapsAreReclaimed
  <2>1. Empty(r)
    BY QuietIsSilent DEF EndInv, EndsAreComing, UnsentIsEmpty, Erasing
  <2>2. \A c \in Clients : clientIdToOrderRef[c] # r
    BY <2>1, ClientsAreNamed DEF EndInv, MapsMatch, Empty
  <2> QED
    BY <2>1, <2>2 DEF Empty
<1> QED
  BY <1>1, EndsAreTracked, PTL

LEMMA FilledStep ==
    ASSUME IndInv, EndInv, [Next]_vars, NEW r \in Refs, closed'[r] > closed[r], Head(batch).status = "Filled"
    PROVE  Booked(r)' = order[r].volume
<1> DEFINE e == Head(batch)
<1>0. closed \in [Refs -> Nat] /\ appliedByClient \in [Clients -> Nat] /\ appliedByRef[r] = 0
  BY DEF IndInv, TypeOK, TypeOfBooks, TableIsBehind
<1>1. closed' # closed
  BY <1>0
<1>2. ApplyLiveOrderEvent
  BY <1>1 DEF Next, vars, books, Submission, InsertFails, EraseFailedInsert, PushSubmitted, InsertSent,
              EventLoop, DrainOrderEvents, Callback, OnRspOrderInsert, OnRtnOrder, OnRtnTrade, PushSpiEvent,
              EraseTerminal, Strategy, SubmitOrder, CancelOrder, Broker, BrokerStep, BrokerAccepts,
              BrokerRefuses, BrokerTrades, BrokerCancels
<1>3. e \in Told /\ e \in Event /\ e.ref \in Refs /\ e.filled \in Nat
  BY <1>2, ApplyTakesHead, ToldTyped DEF IndInv
<1>4. e.ref = r
  BY <1>0, <1>2, <1>3 DEF ApplyLiveOrderEvent
<1>5. e.filled = order[r].volume /\ e.filled > 0
  BY <1>3, <1>4 DEF EndInv, EventsSayTheEnd
<1>6. e.client = order[r].client /\ e.client # NoClient
  <2>1. batch \in Seq(Event) /\ batch # <<>>
    BY <1>2 DEF ApplyLiveOrderEvent, IndInv, TypeOK, TypeOfThreads
  <2> QED
    BY <1>4, <1>5, <2>1, TailShifts DEF IndInv, EventsAreCredible, Credible
<1>7. /\ e.client \in Clients /\ order[r].traded \in Nat /\ order[r].volume \in Nat
      /\ appliedByClient[e.client] \in Nat
      /\ appliedByClient[e.client] <= order[r].volume
  BY <1>0, <1>6, OrdersTyped DEF IndInv, TableIsBehind, BrokerCounts
<1>8. FillDelta(e) = order[r].volume - appliedByClient[e.client]
  BY <1>5, <1>6, <1>7 DEF FillDelta, IsFillStatus, AppliedBefore, MaxOf
<1>9. appliedByClient'[e.client] = order[r].volume
  BY <1>0, <1>2, <1>6, <1>7, <1>8 DEF ApplyLiveOrderEvent
<1>10. order' = order /\ appliedByRef' = appliedByRef
  BY <1>2, <1>6 DEF ApplyLiveOrderEvent, brokerVars
<1> QED
  BY <1>0, <1>6, <1>7, <1>9, <1>10 DEF Booked

(* A strategy is told Filled exactly by the event that books the last lot,  *)
(* whatever was booked of the order before (apply_live_order_event).       *)
THEOREM FilledTellsAll == SafeSpec => FilledMeansFull
<1> DEFINE FullWhenClosed ==
        \A r \in Refs : (closed'[r] > closed[r] /\ Head(batch).status = "Filled")
                          => Booked(r)' = order[r].volume
<1>1. IndInv /\ EndInv /\ [Next]_vars => [FullWhenClosed]_vars
  BY FilledStep
<1> QED
  BY <1>1, EndsAreTracked, PTL DEF SafeSpec, FilledMeansFull

-----------------------------------------------------------------------------
(* The ledger: what a strategy's books promise of the exchange's trades.   *)

traded == [r \in Refs |-> order[r].traded]
booked == [r \in Refs |-> Booked(r)]

\* Steps that trade and book nothing.
LEMMA NothingTradedNorBooked ==
    ASSUME IndInv, UNCHANGED <<appliedByClient, appliedByRef>>,
           \A r \in Refs : order'[r].traded = order[r].traded /\ order'[r].client = order[r].client
    PROVE  traded' = traded /\ booked' = booked
<1>1. traded' = traded
  BY DEF traded
<1>2. \A r \in Refs : Booked(r)' = Booked(r)
  BY DEF Booked
<1> QED
  BY <1>1, <1>2 DEF booked

LEMMA SubmitBooksNothing ==
    ASSUME IndInv, NEW s \in Strategies, NEW offset \in Offsets, NEW volume \in 1..MaxVolume,
           SubmitOrder(s, offset, volume)
    PROVE  traded' = traded /\ booked' = booked
<1>1. /\ orderRefSequence < MaxOrders /\ orderRefSequence \in Nat
      /\ nextClientId[s] \in Nat /\ nextClientId[s] <= orderRefSequence
  BY MaxOrdersAssumption DEF SubmitOrder, RefAvailable, IndInv, RefsInOrder, TypeOK, TypeOfThreads
<1>2. orderRefSequence + 1 \in 1..MaxOrders /\ nextClientId[s] + 1 \in 1..MaxOrders
  BY <1>1, MaxOrdersAssumption
<1>r. PICK r \in Refs : r = orderRefSequence + 1
  BY <1>2 DEF Refs
<1>c. PICK c \in Clients : c = <<s, nextClientId[s] + 1>>
  BY <1>2 DEF Clients
<1>4. order[r] = NoOrder
  BY <1>1, <1>r DEF IndInv, RefsInOrder
<1>5. appliedByClient[c] = 0
  BY <1>1, <1>c DEF IndInv, ClientsAreFresh
<1>6. /\ order'[r].traded = 0 /\ order'[r].client = c
      /\ \A q \in Refs : q # r => order'[q] = order[q]
      /\ appliedByClient' = appliedByClient /\ appliedByRef' = appliedByRef
  BY <1>r, <1>c DEF SubmitOrder, IndInv, TypeOK, TypeOfBroker, books
<1>7. appliedByRef[r] = 0 /\ c # NoClient
  BY ClientsAreNamed DEF IndInv, TableIsBehind
<1>8. Booked(r) = 0
  BY <1>4, <1>7 DEF Booked, NoOrder
<1>9. Booked(r)' = 0
  BY <1>5, <1>6, <1>7 DEF Booked
<1>10. \A q \in Refs : q # r => Booked(q)' = Booked(q)
  BY <1>6 DEF Booked
<1>11. \A q \in Refs : order'[q].traded = order[q].traded
  BY <1>4, <1>6 DEF NoOrder
<1>12. \A q \in Refs : Booked(q)' = Booked(q)
  BY <1>8, <1>9, <1>10
<1>13. booked' = booked
  BY <1>12 DEF booked
<1> QED
  BY <1>11, <1>13 DEF traded

LEMMA TradeIsEntered ==
    ASSUME IndInv, NEW r \in Refs, NEW volume \in 1..MaxVolume, BrokerTrades(r, volume)
    PROVE  Ledger!Trade(r)
<1> DEFINE total == order[r].traded + volume
<1>1. /\ order'[r].traded = total /\ order'[r].client = order[r].client
      /\ \A q \in Refs : q # r => order'[q] = order[q]
      /\ appliedByClient' = appliedByClient /\ appliedByRef' = appliedByRef
  BY DEF BrokerTrades, IndInv, TypeOK, TypeOfBroker, OrderRecord, books
<1>2. total \in (order[r].traded + 1)..MaxVolume
  <2>1. order[r].traded \in Nat /\ order[r].volume \in 0..MaxVolume /\ total <= order[r].volume
    BY OrdersTyped DEF BrokerTrades, IndInv, TypeOK, TypeOfBroker, OrderRecord
  <2> QED
    BY <2>1, MaxVolumeAssumption
<1>3. booked' = booked
  BY <1>1 DEF booked, Booked
<1>4. traded' = [traded EXCEPT ![r] = total]
  BY <1>1 DEF traded
<1>5. traded[r] = order[r].traded
  BY DEF traded
<1> HIDE DEF total
<1> QED
  BY <1>2, <1>3, <1>4, <1>5 DEF Ledger!Trade, traded, booked

LEMMA ApplicationIsEntered ==
    ASSUME IndInv, IndInv', ApplyLiveOrderEvent
    PROVE  (\E r \in Refs : Ledger!Book(r)) \/ (traded' = traded /\ booked' = booked)
<1>1. order' = order /\ batch \in Seq(Event) /\ batch # <<>>
  BY DEF ApplyLiveOrderEvent, brokerVars, IndInv, TypeOK, TypeOfThreads
<1>e. PICK e \in Event : e = Head(batch)
  BY <1>1, TailShifts
<1>r. PICK r \in Refs : r = e.ref
  BY EventsTyped DEF IndInv
<1>2. /\ e.filled \in Nat /\ e.client \in {NoClient, order[r].client}
      /\ e.client = NoClient => e.filled = 0
      /\ e.filled <= order[r].traded
  BY <1>1, <1>e, <1>r, TailShifts, EventsTyped DEF IndInv, EventsAreCredible, Credible
<1>3. traded' = traded
  BY <1>1 DEF traded
<1>4. /\ appliedByClient \in [Clients -> Nat] /\ appliedByRef \in [Refs -> Nat]
      /\ \A q \in Refs : order[q].client \in Clients \union {NoClient} /\ appliedByRef[q] = 0
      /\ \A q \in Refs : appliedByRef'[q] = 0
  BY OrdersTyped DEF IndInv, TypeOK, TypeOfBooks, TableIsBehind
<1>5. CASE e.client = NoClient
  <2>1. appliedByClient' = appliedByClient
    BY <1>5, <1>e DEF ApplyLiveOrderEvent
  <2>2. booked' = booked
    BY <1>1, <1>4, <2>1 DEF booked, Booked
  <2> QED
    BY <1>3, <2>2
<1>6. CASE e.client # NoClient
  <2>1. e.client = order[r].client /\ e.client \in Clients
    BY <1>2, <1>4, <1>6
  <2>d. PICK delta \in Nat : delta = FillDelta(e)
    BY <1>2, <1>4, <1>6, <2>1 DEF FillDelta, AppliedBefore, MaxOf
  <2>2. appliedByClient' = [appliedByClient EXCEPT ![e.client] = appliedByClient[e.client] + delta]
    BY <1>e, <1>6, <1>4, <2>1, <2>d DEF ApplyLiveOrderEvent
  <2>a. Booked(r) = appliedByClient[e.client]
    BY <1>4, <1>6, <2>1 DEF Booked
  <2>b. appliedByClient'[e.client] = appliedByClient[e.client] + delta
    BY <1>4, <2>1, <2>2
  <2>3. Booked(r)' = appliedByClient[e.client] + delta
    BY <1>1, <1>4, <1>6, <2>1, <2>b DEF Booked
  <2>4. \A q \in Refs : q # r => Booked(q)' = Booked(q)
    <3> SUFFICES ASSUME NEW q \in Refs, q # r PROVE Booked(q)' = Booked(q)
      OBVIOUS
    <3>1. order[q].client # e.client
      BY <1>2, <1>6, <2>1 DEF IndInv, ClientsAreFresh
    <3>2. order[q].client # NoClient => appliedByClient'[order[q].client] = appliedByClient[order[q].client]
      BY <1>4, <2>2, <3>1
    <3> QED
      BY <1>1, <1>4, <3>2 DEF Booked
  <2>c. appliedByClient[e.client] \in Nat
    BY <1>4, <2>1
  <2>5. CASE delta = 0
    <3>0. Booked(r)' = Booked(r)
      BY <2>a, <2>c, <2>3, <2>5
    <3>1. \A q \in Refs : Booked(q)' = Booked(q)
      BY <2>4, <3>0
    <3> QED
      BY <1>3, <3>1 DEF booked
  <2>6. CASE delta # 0
    <3>1. Booked(r)' <= order[r].traded
      <4>1. appliedByClient'[order'[r].client] <= order'[r].traded
        BY <1>1, <1>6, <2>1 DEF IndInv, TableIsBehind
      <4> QED
        BY <1>1, <2>1, <2>b, <2>3, <4>1
    <3>2. order[r].traded \in Nat
      BY OrdersTyped DEF IndInv
    <3>t. PICK total \in Nat : total = Booked(r)'
      BY <2>c, <2>3
    <3>3. total \in (booked[r] + 1)..traded[r]
      BY <2>a, <2>c, <2>3, <2>6, <3>1, <3>2, <3>t DEF booked, traded
    <3>4. booked' = [booked EXCEPT ![r] = total]
      BY <2>4, <3>t DEF booked
    <3>6. Ledger!Book(r)
      BY <1>3, <3>3, <3>4 DEF Ledger!Book, traded, booked
    <3> QED
      BY <3>6
  <2> QED
    BY <2>5, <2>6
<1> QED
  BY <1>5, <1>6

(* The order flow keeps the ledger: lots are traded, and later booked in    *)
(* any grouping, never ahead of the trade and never twice, for any number  *)
(* of strategies and orders (the safety part of FillLedger).               *)
THEOREM LedgerIsKept == SafeSpec => Ledger!Safe
<1>1. Init => Ledger!Init
  BY DEF Init, Ledger!Init, Booked, NoOrder
<1>2. IndInv /\ IndInv' /\ [Next]_vars => [Ledger!Next]_<<traded, booked>>
  <2> SUFFICES ASSUME IndInv, IndInv', [Next]_vars
               PROVE  (\E r \in Refs : Ledger!Trade(r) \/ Ledger!Book(r)) \/ (traded' = traded /\ booked' = booked)
    BY DEF Ledger!Next
  <2>1. CASE (\E ioc \in BOOLEAN : InsertSent(ioc)) \/ InsertFails
    <3>1. PICK to : order' = [order EXCEPT ![main.ref].state = to]
      BY <2>1 DEF InsertSent, InsertFails
    <3>2. main.ref \in Refs
      BY <2>1 DEF InsertSent, InsertFails, IndInv, TypeOK, TypeOfThreads
    <3>3. UNCHANGED <<appliedByClient, appliedByRef>>
      BY <2>1 DEF InsertSent, InsertFails, books
    <3> QED
      BY <3>1, <3>2, <3>3, StateMoves, NothingTradedNorBooked DEF IndInv
  <2>2. CASE EraseFailedInsert \/ PushSubmitted \/ DrainOrderEvents \/ Callback \/ \E c \in Clients : CancelOrder(c)
    <3>1. UNCHANGED <<order, appliedByClient, appliedByRef>>
      BY <2>2 DEF EraseFailedInsert, PushSubmitted, DrainOrderEvents, Callback, OnRspOrderInsert, OnRtnOrder,
                  OnRtnTrade, PushSpiEvent, EraseTerminal, CancelOrder, brokerVars, books
    <3> QED
      BY <3>1, NothingTradedNorBooked
  <2>3. CASE ApplyLiveOrderEvent
    BY <2>3, ApplicationIsEntered
  <2>4. CASE \E s \in Strategies, offset \in Offsets, volume \in 1..MaxVolume : SubmitOrder(s, offset, volume)
    BY <2>4, SubmitBooksNothing
  <2>5. CASE \E r \in Refs : BrokerAccepts(r) \/ BrokerRefuses(r) \/ BrokerCancels(r)
    <3>1. PICK r \in Refs, to \in {"working", "done"} : order' = [order EXCEPT ![r].state = to]
      BY <2>5 DEF BrokerAccepts, BrokerRefuses, BrokerCancels, BrokerStep
    <3>2. UNCHANGED <<appliedByClient, appliedByRef>>
      BY <2>5 DEF BrokerAccepts, BrokerRefuses, BrokerCancels, BrokerStep, books
    <3> QED
      BY <3>1, <3>2, StateMoves, NothingTradedNorBooked DEF IndInv
  <2>6. CASE \E r \in Refs, volume \in 1..MaxVolume : BrokerTrades(r, volume)
    BY <2>6, TradeIsEntered
  <2>7. CASE UNCHANGED vars
    BY <2>7, NothingTradedNorBooked DEF vars, brokerVars, books
  <2> QED
    BY <2>1, <2>2, <2>3, <2>4, <2>5, <2>6, <2>7 DEF Next, Submission, EventLoop, Strategy, Broker
<1>3. IndInv /\ [Next]_vars => IndInv'
  BY StepKeeps
<1> QED
  BY <1>1, <1>2, <1>3, FillsAreTracked, PTL DEF SafeSpec, Ledger!Safe, traded, booked

-----------------------------------------------------------------------------
(***************************************************************************)
(* The account's position and the sum of the strategies' positions.  They  *)
(* are booked by two subtractions that stop at zero, so they stay equal as *)
(* long as neither is ever cut off: as long as a close never books more    *)
(* lots than its strategy holds.  That takes the order of the events: once *)
(* a strategy was told the end of its exit, and may send another, no fill  *)
(* of the old one is still on its way.                                     *)
(***************************************************************************)
AnyOf(S) == CHOOSE x \in S : TRUE
Item(a, i) == a[i]
Add(e, n, m) == n + m
Adding == INSTANCE FoldFacts WITH Op <- Add, Pick <- AnyOf, At <- Item

\* An order that is over and has no trade report on its way.
Ended(r) == order[r].state = "done" /\ \A i \in 1..Len(feed) : ~IsTrade(i, r)

\* No fill of an order comes after its end.
NoFillAfter(e, f) == IsTerminalStatus(e.status) /\ f.ref = e.ref => ~IsFillStatus(f.status)

QueuesInOrder ==
    /\ \A i, j \in 1..Len(batch) : i < j => NoFillAfter(batch[i], batch[j])
    /\ \A i, j \in 1..Len(pendingEvents) : i < j => NoFillAfter(pendingEvents[i], pendingEvents[j])
    /\ \A i \in 1..Len(batch), j \in 1..Len(pendingEvents) : NoFillAfter(batch[i], pendingEvents[j])
EndsAreLast == QueuesInOrder /\ (spi.pc = "push" => \A e \in Waiting : NoFillAfter(e, spi.event))

EndsStay ==
    /\ \A e \in Told : IsTerminalStatus(e.status) => Ended(e.ref)
    /\ \A r \in Refs : closed[r] > 0 =>
           Ended(r) /\ \A e \in Told : e.ref = r => ~IsFillStatus(e.status)

OrderOfEnds == EndsAreLast /\ EndsStay

\* An exit of a strategy that it was not told the end of.
Exiting(r) == order[r].offset = "Close" /\ order[r].state \notin {"free", "failed"} /\ closed[r] = 0

\* What such an exit may still book is there to be booked.
ExitsAreCovered ==
    /\ \A s \in Strategies : attachmentLots[s] \in Nat
    /\ \A r \in Refs : order[r].state # "free" => order[r].strategy \in Strategies
    /\ \A r \in Refs : Exiting(r) => order[r].volume - Booked(r) <= attachmentLots[order[r].strategy]
    /\ \A q, r \in Refs : Exiting(q) /\ Exiting(r) /\ order[q].strategy = order[r].strategy => q = r

LotsInv == ExitsAreCovered /\ AttachmentsAddUp

-----------------------------------------------------------------------------
(* The order of ends.                                                      *)

\* Steps that put no event on its way and take none off.
LEMMA QueuesRest ==
    ASSUME TypeOK, OrderOfEnds, UNCHANGED <<batch, pendingEvents, closed>>,
           spi' = spi \/ (spi.pc # "push" /\ spi'.pc = "idle"),
           \A r \in Refs : Ended(r) => Ended(r)'
    PROVE  OrderOfEnds'
<1>1. Waiting' = Waiting /\ Told' = Told /\ (spi'.pc = "push" => spi' = spi)
  BY DEF Waiting, Told
<1>2. EndsAreLast'
  BY <1>1 DEF OrderOfEnds, EndsAreLast, QueuesInOrder, NoFillAfter
<1>3. EndsStay'
  BY <1>1, ToldTyped DEF OrderOfEnds, EndsStay
<1> QED
  BY <1>2, <1>3 DEF OrderOfEnds

LEMMA SubmissionKeepsEnds ==
    ASSUME IndInv, OrderOfEnds, \/ InsertFails \/ EraseFailedInsert \/ EraseTerminal
                                \/ \E ioc \in BOOLEAN : InsertSent(ioc)
                                \/ \E c \in Clients : CancelOrder(c)
                                \/ \E s \in Strategies, offset \in Offsets, volume \in 1..MaxVolume :
                                      SubmitOrder(s, offset, volume)
    PROVE  OrderOfEnds'
<1>0. TypeOK
  BY DEF IndInv
<1>1. /\ UNCHANGED <<batch, pendingEvents, closed, feed>>
      /\ spi' = spi \/ (spi.pc # "push" /\ spi'.pc = "idle")
  <2>1. CASE EraseTerminal
    BY <2>1 DEF EraseTerminal, books, brokerVars, NoCallback
  <2>2. CASE \E s \in Strategies, offset \in Offsets, volume \in 1..MaxVolume : SubmitOrder(s, offset, volume)
    BY <2>2 DEF SubmitOrder, books
  <2>3. CASE InsertFails \/ EraseFailedInsert \/ \E ioc \in BOOLEAN : InsertSent(ioc)
    BY <2>3 DEF InsertFails, EraseFailedInsert, InsertSent, books, brokerVars
  <2>4. CASE \E c \in Clients : CancelOrder(c)
    BY <2>4 DEF CancelOrder, books
  <2> QED
    BY <2>1, <2>2, <2>3, <2>4
<1>2. \A q \in Refs : Ended(q) => Ended(q)'
  <2>1. CASE EraseFailedInsert \/ EraseTerminal \/ \E c \in Clients : CancelOrder(c)
    <3>1. order' = order
      BY <2>1 DEF EraseFailedInsert, EraseTerminal, CancelOrder, brokerVars
    <3> QED
      BY <1>1, <3>1 DEF Ended, IsTrade
  <2>2. CASE InsertFails \/ \E ioc \in BOOLEAN : InsertSent(ioc)
    <3>1. PICK r \in Refs : r = main.ref
      BY <2>2 DEF InsertSent, InsertFails, IndInv, TypeOK, TypeOfThreads
    <3>2. order[r].state # "done"
      BY <2>2, <3>1 DEF InsertSent, InsertFails, IndInv, SubmissionAnswerable
    <3>3. \A q \in Refs : q # r => order'[q] = order[q]
      BY <2>2, <3>1 DEF InsertSent, InsertFails, TypeOK, TypeOfBroker, IndInv
    <3> QED
      BY <1>0, <1>1, <3>2, <3>3 DEF Ended, IsTrade
  <2>3. CASE \E s \in Strategies, offset \in Offsets, volume \in 1..MaxVolume : SubmitOrder(s, offset, volume)
    <3>1. PICK r : r = orderRefSequence + 1
      OBVIOUS
    <3>2. r \in Refs /\ r > orderRefSequence
      BY <2>3, <3>1, MaxOrdersAssumption DEF SubmitOrder, RefAvailable, Refs, IndInv, TypeOK, TypeOfThreads
    <3>3. order[r].state # "done"
      BY <3>2 DEF IndInv, RefsInOrder, NoOrder
    <3>4. \A q \in Refs : q # r => order'[q] = order[q]
      BY <2>3, <3>1 DEF SubmitOrder, TypeOK, TypeOfBroker, IndInv
    <3> QED
      BY <1>0, <1>1, <3>3, <3>4 DEF Ended, IsTrade
  <2> QED
    BY <2>1, <2>2, <2>3
<1> QED
  BY <1>0, <1>1, <1>2, QueuesRest

\* The broker says nothing more of an order it is done with.
LEMMA BrokerKeepsEnds ==
    ASSUME IndInv, OrderOfEnds, Broker
    PROVE  OrderOfEnds'
<1>0. TypeOK /\ Len(feed) \in Nat /\ feed \in Seq(FeedMessage)
  BY MessagesTyped DEF IndInv, TypeOK, TypeOfBroker
<1>1. UNCHANGED <<batch, pendingEvents, closed, spi>>
  BY DEF Broker, BrokerAccepts, BrokerRefuses, BrokerCancels, BrokerTrades, BrokerStep, books
<1>2. PICK r \in Refs : \/ BrokerAccepts(r) \/ BrokerRefuses(r) \/ BrokerCancels(r)
                        \/ \E volume \in 1..MaxVolume : BrokerTrades(r, volume)
  BY DEF Broker
<1>3. order[r].state # "done" /\ \A q \in Refs : q # r => order'[q] = order[q]
  BY <1>0, <1>2 DEF BrokerAccepts, BrokerRefuses, BrokerCancels, BrokerTrades, BrokerStep, TypeOK, TypeOfBroker
<1>t. order[r].volume \in 0..MaxVolume /\ order[r].traded \in 0..MaxVolume
  BY <1>0 DEF TypeOK, TypeOfBroker, OrderRecord
<1>m. /\ \A t \in 0..MaxVolume : /\ Message("RtnOrder", r, "Accepted", 0, 0) \in FeedMessage
                                  /\ Message("RtnOrder", r, "Cancelled", 0, t) \in FeedMessage
                                  /\ Message("RtnOrder", r, "Filled", 0, t) \in FeedMessage
                                  /\ Message("RtnOrder", r, "PartiallyFilled", 0, t) \in FeedMessage
                                  /\ \A v \in 0..MaxVolume : Message("RtnTrade", r, "Accepted", v, t) \in FeedMessage
      /\ Message("RspOrderInsert", r, "Rejected", 0, 0) \in FeedMessage
      /\ \A k, s, v, t : Message(k, r, s, v, t).ref = r
  BY MaxVolumeAssumption DEF Message, FeedMessage, Status
<1>4. \A i \in 1..Len(feed') : (i \in 1..Len(feed) /\ feed'[i] = feed[i]) \/ feed'[i].ref = r
  <2>1. CASE BrokerAccepts(r) \/ BrokerCancels(r)
    <3>1. PICK m \in FeedMessage : m.ref = r /\ feed' = feed \o <<m>>
      <4>1. CASE BrokerAccepts(r)
        <5>1. feed' = feed \o <<Message("RtnOrder", r, "Accepted", 0, 0)>>
          BY <4>1 DEF BrokerAccepts, BrokerStep
        <5> QED
          BY <1>t, <1>m, <5>1
      <4>2. CASE BrokerCancels(r)
        <5>1. feed' = feed \o <<Message("RtnOrder", r, "Cancelled", 0, order[r].traded)>>
          BY <4>2 DEF BrokerCancels, BrokerStep
        <5> QED
          BY <1>t, <1>m, <5>1
      <4> QED
        BY <2>1, <4>1, <4>2
    <3>2. Len(feed') = Len(feed) + 1 /\ feed'[Len(feed) + 1] = m /\ \A i \in 1..Len(feed) : feed'[i] = feed[i]
      BY <1>0, <3>1, AppendOne
    <3> QED
      BY <1>0, <3>1, <3>2
  <2>2. CASE BrokerRefuses(r) \/ \E volume \in 1..MaxVolume : BrokerTrades(r, volume)
    <3>1. PICK m, n \in FeedMessage : m.ref = r /\ n.ref = r /\ feed' = feed \o <<m, n>>
      <4>1. CASE BrokerRefuses(r)
        <5>1. feed' = feed \o <<Message("RspOrderInsert", r, "Rejected", 0, 0),
                              Message("RspOrderInsert", r, "Rejected", 0, 0)>>
          BY <4>1 DEF BrokerRefuses, BrokerStep
        <5> QED
          BY <1>m, <5>1
      <4>2. ASSUME NEW volume \in 1..MaxVolume, BrokerTrades(r, volume)
            PROVE  \E m, n \in FeedMessage : m.ref = r /\ n.ref = r /\ feed' = feed \o <<m, n>>
        <5>1. PICK total : total = order[r].traded + volume
          OBVIOUS
        <5>a. total <= order[r].volume
          BY <4>2, <5>1 DEF BrokerTrades
        <5>2. total \in 0..MaxVolume /\ volume \in 0..MaxVolume
          BY <1>t, <5>1, <5>a, MaxVolumeAssumption
        <5>3. \E s \in {"Filled", "PartiallyFilled"} :
                 feed' = feed \o <<Message("RtnOrder", r, s, 0, total), Message("RtnTrade", r, "Accepted", volume, total)>>
          BY <4>2, <5>1 DEF BrokerTrades
        <5> QED
          BY <1>m, <5>2, <5>3
      <4> QED
        BY <2>2, <4>1, <4>2
    <3>2. /\ Len(feed') = Len(feed) + 2 /\ feed'[Len(feed) + 1] = m /\ feed'[Len(feed) + 2] = n
          /\ \A i \in 1..Len(feed) : feed'[i] = feed[i]
      BY <1>0, <3>1, AppendTwo
    <3> QED
      BY <1>0, <3>1, <3>2
  <2> QED
    BY <1>2, <2>1, <2>2
<1>5. \A q \in Refs : Ended(q) => Ended(q)'
  BY <1>3, <1>4 DEF Ended, IsTrade
<1> QED
  BY <1>0, <1>1, <1>5, QueuesRest

\* One more event at the end of the queue.
LEMMA QueueKeepsOrder ==
    ASSUME TypeOK, QueuesInOrder, NEW e \in Event, PushEvent(e), batch' = batch,
           \A f \in Waiting : NoFillAfter(f, e)
    PROVE  QueuesInOrder'
<1>1. /\ Len(pendingEvents') = Len(pendingEvents) + 1 /\ Len(pendingEvents) \in Nat
      /\ pendingEvents'[Len(pendingEvents) + 1] = e
      /\ \A i \in 1..Len(pendingEvents) : pendingEvents'[i] = pendingEvents[i]
  BY AppendProperties DEF PushEvent, TypeOK, TypeOfThreads
<1>2. /\ \A i \in 1..Len(batch) : NoFillAfter(batch[i], e)
      /\ \A i \in 1..Len(pendingEvents) : NoFillAfter(pendingEvents[i], e)
  BY DEF Waiting
<1>3. \A i \in 1..Len(pendingEvents') : i \in 1..Len(pendingEvents) \/ i = Len(pendingEvents) + 1
  BY <1>1
<1>4. \A i, j \in 1..Len(pendingEvents') : i < j => NoFillAfter(pendingEvents'[i], pendingEvents'[j])
  BY <1>1, <1>2, <1>3 DEF QueuesInOrder
<1>5. \A i \in 1..Len(batch), j \in 1..Len(pendingEvents') : NoFillAfter(batch[i], pendingEvents'[j])
  BY <1>1, <1>2, <1>3 DEF QueuesInOrder
<1> QED
  BY <1>4, <1>5 DEF QueuesInOrder, NoFillAfter

LEMMA PushesKeepEnds ==
    ASSUME IndInv, OrderOfEnds, PushSubmitted \/ PushSpiEvent
    PROVE  OrderOfEnds'
<1>0. TypeOK
  BY DEF IndInv
<1>1. UNCHANGED <<batch, closed, order, feed>>
  BY DEF PushSubmitted, PushSpiEvent, brokerVars, books
<1>2. \A r \in Refs : Ended(r)' = Ended(r)
  BY <1>1 DEF Ended, IsTrade
<1>3. CASE PushSubmitted
  <2>1. PICK e : e = [ref |-> main.ref, client |-> order[main.ref].client, status |-> "Submitted", filled |-> 0]
    OBVIOUS
  <2>2. main.ref \in Refs /\ order[main.ref].client \in Clients \union {NoClient}
    BY <1>0, <1>3, OrdersTyped DEF PushSubmitted, TypeOK, TypeOfThreads
  <2>3. e \in Event /\ ~IsTerminalStatus(e.status) /\ ~IsFillStatus(e.status)
    BY <2>1, <2>2 DEF Event, Status, IsTerminalStatus, IsFillStatus
  <2>4. PushEvent(e) /\ spi' = spi
    BY <1>3, <2>1 DEF PushSubmitted
  <2>5. QueuesInOrder'
    BY <1>0, <1>1, <2>3, <2>4, QueueKeepsOrder DEF OrderOfEnds, EndsAreLast, NoFillAfter
  <2>6. Waiting' = Waiting \union {e} /\ Told' = Told \union {e}
    BY <1>0, <1>1, <2>3, <2>4, QueueGrows DEF Told
  <2>7. EndsAreLast'
    BY <2>3, <2>4, <2>5, <2>6 DEF OrderOfEnds, EndsAreLast, NoFillAfter
  <2>8. EndsStay'
    BY <1>0, <1>1, <1>2, <2>3, <2>6, ToldTyped DEF OrderOfEnds, EndsStay
  <2> QED
    BY <2>7, <2>8 DEF OrderOfEnds
<1>4. CASE PushSpiEvent
  <2>1. PICK e : e = spi.event
    OBVIOUS
  <2>2. e \in Event /\ PushEvent(e) /\ spi.pc = "push"
    BY <1>0, <1>4, <2>1, ToldTyped DEF PushSpiEvent
  <2>3. spi'.pc # "push"
    BY <1>4 DEF PushSpiEvent, NoCallback, IndInv, TypeOK, TypeOfThreads
  <2>4. QueuesInOrder'
    BY <1>0, <1>1, <2>1, <2>2, QueueKeepsOrder DEF OrderOfEnds, EndsAreLast
  <2>5. Told' = Told
    BY <1>0, <1>1, <2>1, <2>2, <2>3, QueueGrows DEF Told
  <2>6. EndsStay'
    BY <1>0, <1>1, <1>2, <2>5, ToldTyped DEF OrderOfEnds, EndsStay
  <2> QED
    BY <2>3, <2>4, <2>6 DEF OrderOfEnds, EndsAreLast
<1> QED
  BY <1>3, <1>4

LEMMA DrainKeepsEnds ==
    ASSUME IndInv, OrderOfEnds, DrainOrderEvents
    PROVE  OrderOfEnds'
<1>0. TypeOK
  BY DEF IndInv
<1>1. /\ UNCHANGED <<closed, order, feed, spi>> /\ batch = <<>>
      /\ batch' = pendingEvents /\ pendingEvents' = <<>>
  BY DEF DrainOrderEvents, brokerVars, books
<1>2. Told' = Told
  BY <1>0, DrainMoves
<1>3. Waiting' = Waiting
  <2>1. {batch[i] : i \in 1..Len(batch)} = {} /\ {pendingEvents'[i] : i \in 1..Len(pendingEvents')} = {}
    BY <1>1
  <2> QED
    BY <1>1, <2>1 DEF Waiting
<1>4. QueuesInOrder'
  <2>1. Len(pendingEvents') = 0
    BY <1>1
  <2>2. \A i, j \in 1..Len(batch') : i < j => NoFillAfter(batch'[i], batch'[j])
    BY <1>1 DEF OrderOfEnds, EndsAreLast, QueuesInOrder
  <2> QED
    BY <2>1, <2>2 DEF QueuesInOrder, NoFillAfter
<1>5. EndsAreLast'
  BY <1>1, <1>3, <1>4 DEF OrderOfEnds, EndsAreLast, NoFillAfter
<1>6. EndsStay'
  BY <1>0, <1>1, <1>2, ToldTyped DEF OrderOfEnds, EndsStay, Ended, IsTrade
<1> QED
  BY <1>5, <1>6 DEF OrderOfEnds

\* The event applied was the first: what follows its end brings no fill.
LEMMA ApplyKeepsEnds ==
    ASSUME IndInv, OrderOfEnds, ApplyLiveOrderEvent
    PROVE  OrderOfEnds'
<1>0. TypeOK /\ closed \in [Refs -> Nat]
  BY DEF IndInv, TypeOK, TypeOfBooks
<1>1. /\ UNCHANGED <<order, feed, spi, pendingEvents>>
      /\ batch # <<>> /\ batch \in Seq(Event) /\ batch' = Tail(batch)
  BY DEF ApplyLiveOrderEvent, brokerVars, IndInv, TypeOK, TypeOfThreads
<1>2. PICK e \in Told : e = Head(batch) /\ e \in Event /\ Told' \subseteq Told
  BY <1>0, ApplyTakesHead
<1>3. /\ e = batch[1] /\ 1 \in 1..Len(batch) /\ Len(batch) \in Nat
      /\ \A i \in 1..Len(batch') : i + 1 \in 1..Len(batch) /\ batch'[i] = batch[i + 1] /\ i \in Nat /\ i >= 1
  BY <1>1, <1>2, TailShifts
<1>4. Waiting' \subseteq Waiting /\ e \in Waiting
  BY <1>1, <1>3 DEF Waiting
<1>5. QueuesInOrder'
  <2>1. ASSUME NEW i \in 1..Len(batch'), NEW j \in 1..Len(batch'), i < j
        PROVE  NoFillAfter(batch'[i], batch'[j])
    <3>1. i + 1 \in 1..Len(batch) /\ j + 1 \in 1..Len(batch) /\ i + 1 < j + 1
      BY <1>3, <2>1
    <3> QED
      BY <1>3, <3>1 DEF OrderOfEnds, EndsAreLast, QueuesInOrder
  <2>2. \A i \in 1..Len(batch'), j \in 1..Len(pendingEvents) : NoFillAfter(batch'[i], pendingEvents[j])
    BY <1>3 DEF OrderOfEnds, EndsAreLast, QueuesInOrder
  <2> QED
    BY <1>1, <2>1, <2>2 DEF OrderOfEnds, EndsAreLast, QueuesInOrder, NoFillAfter
<1>6. EndsAreLast'
  BY <1>1, <1>4, <1>5 DEF OrderOfEnds, EndsAreLast, NoFillAfter
<1>7. \A f \in Told' : NoFillAfter(e, f)
  <2>1. \A f \in Waiting' : NoFillAfter(e, f)
    <3>1. \A i \in 1..Len(batch') : NoFillAfter(e, batch'[i])
      <4> SUFFICES ASSUME NEW i \in 1..Len(batch') PROVE NoFillAfter(e, batch'[i])
        OBVIOUS
      <4>1. i + 1 \in 1..Len(batch) /\ batch'[i] = batch[i + 1] /\ 1 < i + 1
        BY <1>3
      <4> QED
        BY <1>3, <4>1 DEF OrderOfEnds, EndsAreLast, QueuesInOrder
    <3>2. \A i \in 1..Len(pendingEvents) : NoFillAfter(e, pendingEvents[i])
      BY <1>3 DEF OrderOfEnds, EndsAreLast, QueuesInOrder
    <3> QED
      BY <1>1, <3>1, <3>2 DEF Waiting
  <2>2. spi.pc = "push" => NoFillAfter(e, spi.event)
    BY <1>4 DEF OrderOfEnds, EndsAreLast
  <2> QED
    BY <1>1, <2>1, <2>2 DEF Told
<1>8. /\ \A r \in Refs : closed'[r] > 0 => closed[r] > 0 \/ (r = e.ref /\ IsTerminalStatus(e.status))
      /\ \A r \in Refs : Ended(r)' = Ended(r)
  <2>1. \/ closed' = closed
        \/ IsTerminalStatus(e.status) /\ closed' = [closed EXCEPT ![e.ref] = closed[e.ref] + 1]
    BY <1>2 DEF ApplyLiveOrderEvent
  <2>2. \A r \in Refs : closed'[r] > 0 => closed[r] > 0 \/ (r = e.ref /\ IsTerminalStatus(e.status))
    BY <1>0, <2>1
  <2> QED
    BY <1>1, <2>2 DEF Ended, IsTrade
<1>9. EndsStay'
  <2>1. \A f \in Told' : IsTerminalStatus(f.status) => Ended(f.ref)'
    BY <1>0, <1>1, <1>2, <1>8, ToldTyped DEF OrderOfEnds, EndsStay
  <2>2. ASSUME NEW r \in Refs, closed'[r] > 0
        PROVE  Ended(r)' /\ \A f \in Told' : f.ref = r => ~IsFillStatus(f.status)
    <3>1. CASE closed[r] > 0
      BY <1>2, <1>8, <3>1 DEF OrderOfEnds, EndsStay
    <3>2. CASE r = e.ref /\ IsTerminalStatus(e.status)
      BY <1>2, <1>7, <1>8, <3>2 DEF OrderOfEnds, EndsStay, NoFillAfter
    <3> QED
      BY <1>8, <2>2, <3>1, <3>2
  <2> QED
    BY <2>1, <2>2 DEF EndsStay
<1> QED
  BY <1>6, <1>9 DEF OrderOfEnds

\* A message is taken off the feed: its event, if any, comes after no end.
LEMMA TakingKeepsOrder ==
    ASSUME IndInv, IndInv', OrderOfEnds, feed # <<>>, feed' = Tail(feed), spi.pc = "idle",
           UNCHANGED <<order, batch, pendingEvents, closed>>,
           NEW e \in Event, spi' = spi \/ spi' = [pc |-> "push", event |-> e],
           IsFillStatus(e.status) => ~Ended(e.ref)
    PROVE  OrderOfEnds'
<1>0. TypeOK /\ e.ref \in Refs
  BY DEF IndInv, Event
<1>1. Waiting' = Waiting
  BY DEF Waiting
<1>2. \A r \in Refs : Ended(r) => Ended(r)'
  <2>1. /\ \A i \in 1..Len(feed') : i + 1 \in 1..Len(feed)
        /\ \A r \in Refs : \A i \in 1..Len(feed') : IsTrade(i, r)' => IsTrade(i + 1, r)
    BY <1>0, TakesHead
  <2> QED
    BY <2>1 DEF Ended
<1>3. CASE spi' = spi
  BY <1>0, <1>2, <1>3, QueuesRest
<1>4. CASE spi' = [pc |-> "push", event |-> e]
  <2>1. Told = Waiting /\ Told' = Waiting \union {e}
    BY <1>1, <1>4 DEF Told
  <2>2. QueuesInOrder'
    BY DEF OrderOfEnds, EndsAreLast, QueuesInOrder, NoFillAfter
  <2>3. \A f \in Waiting : NoFillAfter(f, e)
    BY <2>1 DEF OrderOfEnds, EndsStay, NoFillAfter
  <2>4. EndsAreLast'
    BY <1>1, <1>4, <2>2, <2>3 DEF EndsAreLast, NoFillAfter
  <2>5. IsTerminalStatus(e.status) => Ended(e.ref)'
    BY <1>4 DEF IndInv, ErasureIsFinal, Ended
  <2>6. EndsStay'
    <3>1. \A f \in Told' : IsTerminalStatus(f.status) => Ended(f.ref)'
      BY <1>0, <1>2, <2>1, <2>5, ToldTyped DEF OrderOfEnds, EndsStay
    <3>2. \A r \in Refs : closed[r] > 0 => Ended(r)' /\ \A f \in Told' : f.ref = r => ~IsFillStatus(f.status)
      BY <1>2, <2>1 DEF OrderOfEnds, EndsStay
    <3> QED
      BY <3>1, <3>2 DEF EndsStay
  <2> QED
    BY <2>4, <2>6 DEF OrderOfEnds
<1> QED
  BY <1>3, <1>4

LEMMA ReportsKeepEnds ==
    ASSUME IndInv, IndInv', OrderOfEnds, OnRspOrderInsert \/ OnRtnOrder \/ OnRtnTrade
    PROVE  OrderOfEnds'
<1>0. TypeOK
  BY DEF IndInv
<1>1. /\ feed # <<>> /\ feed' = Tail(feed) /\ spi.pc = "idle"
      /\ UNCHANGED <<order, batch, pendingEvents, closed>>
  BY DEF OnRspOrderInsert, OnRtnOrder, OnRtnTrade, Incoming, books
<1>m. PICK m \in FeedMessage : m = Head(feed)
  BY <1>0, <1>1, TailShifts DEF TypeOK, TypeOfBroker
<1>2. m.ref \in Refs /\ m.status \in Status /\ m = feed[1] /\ 1 \in 1..Len(feed)
  BY <1>0, <1>1, <1>m, TakesHead DEF FeedMessage
<1>c. orderToClientId[m.ref] \in Clients \union {NoClient}
  BY <1>0, <1>2, OrdersTyped
<1>3. CASE OnRspOrderInsert
  <2>1. PICK e : e = [ref |-> m.ref, client |-> orderToClientId[m.ref], status |-> "Rejected", filled |-> 0]
    OBVIOUS
  <2>2. e \in Event /\ ~IsFillStatus(e.status)
    BY <1>2, <1>c, <2>1 DEF Event, Status, IsFillStatus
  <2>3. spi' = [pc |-> "push", event |-> e]
    BY <1>3, <1>m, <2>1 DEF OnRspOrderInsert, StartPush
  <2> QED
    BY <1>1, <2>2, <2>3, TakingKeepsOrder
<1>4. CASE OnRtnOrder
  <2>1. PICK e : e = [ref |-> m.ref, client |-> orderToClientId[m.ref], status |-> m.status, filled |-> 0]
    OBVIOUS
  <2>2. e \in Event
    BY <1>2, <1>c, <2>1 DEF Event
  <2>3. \/ spi' = spi
        \/ spi' = [pc |-> "push", event |-> e] /\ ~(IsFillStatus(m.status) /\ m.traded > 0)
    BY <1>4, <1>m, <2>1 DEF OnRtnOrder, StartPush
  <2>4. m.kind = "RtnOrder"
    BY <1>4, <1>m DEF OnRtnOrder, Incoming
  <2>5. IsFillStatus(m.status) => m.traded > 0
    BY <1>2, <2>4 DEF IndInv, EndsComeLast, NothingFollows
  <2>6. spi' = spi \/ (spi' = [pc |-> "push", event |-> e] /\ ~IsFillStatus(e.status))
    BY <2>1, <2>3, <2>5
  <2>7. CASE spi' = spi
    <3>1. \A r \in Refs : Ended(r) => Ended(r)'
      <4>1. /\ \A i \in 1..Len(feed') : i + 1 \in 1..Len(feed)
            /\ \A r \in Refs : \A i \in 1..Len(feed') : IsTrade(i, r)' => IsTrade(i + 1, r)
        BY <1>0, <1>1, TakesHead
      <4> QED
        BY <1>1, <4>1 DEF Ended
    <3> QED
      BY <1>0, <1>1, <2>7, <3>1, QueuesRest
  <2>8. CASE spi' = [pc |-> "push", event |-> e] /\ ~IsFillStatus(e.status)
    BY <1>1, <2>2, <2>8, TakingKeepsOrder
  <2> QED
    BY <2>6, <2>7, <2>8
<1>5. CASE OnRtnTrade
  <2>1. PICK n : n = cumulativeTradeVolume[m.ref] + m.volume
    OBVIOUS
  <2>2. n \in Nat
    BY <1>0, <1>2, <2>1, OrdersTyped, MessagesTyped
  <2>3. PICK s \in {"Filled", "PartiallyFilled"} : spi' = [pc |-> "push",
            event |-> [ref |-> m.ref, client |-> orderToClientId[m.ref], filled |-> n, status |-> s]]
    BY <1>5, <1>m, <2>1 DEF OnRtnTrade, StartPush
  <2>4. PICK e : e = [ref |-> m.ref, client |-> orderToClientId[m.ref], filled |-> n, status |-> s]
    OBVIOUS
  <2>5. e \in Event /\ e.ref = m.ref
    BY <1>2, <1>c, <2>2, <2>4 DEF Event, Status
  <2>6. IsTrade(1, m.ref)
    BY <1>2, <1>5, <1>m DEF OnRtnTrade, Incoming, IsTrade
  <2>7. ~Ended(e.ref)
    BY <1>2, <2>5, <2>6 DEF Ended
  <2> QED
    BY <1>1, <2>3, <2>4, <2>5, <2>7, TakingKeepsOrder
<1> QED
  BY <1>3, <1>4, <1>5

LEMMA EndsKeepOrder ==
    ASSUME IndInv, IndInv', OrderOfEnds, [Next]_vars
    PROVE  OrderOfEnds'
<1>1. CASE UNCHANGED vars
  BY <1>1 DEF vars, brokerVars, books, OrderOfEnds, EndsAreLast, QueuesInOrder, EndsStay, Ended, IsTrade,
              Told, Waiting, NoFillAfter
<1> QED
  BY <1>1, SubmissionKeepsEnds, BrokerKeepsEnds, PushesKeepEnds, DrainKeepsEnds, ApplyKeepsEnds, ReportsKeepEnds
     DEF Next, Submission, EventLoop, Callback, Strategy

LEMMA InitOrder == Init => OrderOfEnds
BY DEF Init, OrderOfEnds, EndsAreLast, QueuesInOrder, EndsStay, Told, Waiting, NoCallback

-----------------------------------------------------------------------------
(* Sums of lots.                                                           *)

LEMMA LotsAreFolded ==
    ASSUME NEW lots \in [Strategies -> Int]
    PROVE  TotalLots(lots) = Adding!Fold(Strategies, 0, lots, 0)[Strategies]
BY DEF TotalLots, FoldFunction, FoldFunctionOnSet, MapThenFoldSet, Adding!Fold, Adding!Solves, AnyOf, Item, Add

LEMMA AnyOfChooses ==
    Adding!Adds /\ Adding!Chosen(Strategies) /\ Adding!IsFiniteSet(Strategies)
<1>1. Adding!Adds
  BY DEF Adding!Adds, Adding!AddsUp, Add, Item
<1>2. Adding!Chosen(Strategies) /\ Adding!IsFiniteSet(Strategies)
  BY StrategiesAssumption DEF Adding!Chosen, AnyOf, Adding!IsFiniteSet, IsFiniteSet
<1> QED
  BY <1>1, <1>2

\* One strategy's lots change: the total changes by as much and covers them.
LEMMA TotalsFollow ==
    ASSUME NEW lots \in [Strategies -> Nat], NEW s \in Strategies, NEW d \in Int,
           NEW other, other = [lots EXCEPT ![s] = lots[s] + d]
    PROVE  /\ TotalLots(lots) \in Nat /\ lots[s] <= TotalLots(lots)
           /\ TotalLots(other) = TotalLots(lots) + d
<1>1. other \in [Strategies -> Int] /\ lots \in [Strategies -> Int]
  OBVIOUS
<1>2. PICK p, q : p = TotalLots(lots) /\ q = TotalLots(other)
  OBVIOUS
<1>3. p = Adding!Fold(Strategies, 0, lots, 0)[Strategies] /\ q = Adding!Fold(Strategies, 0, other, 0)[Strategies]
  BY <1>1, <1>2, LotsAreFolded
<1>4. p \in Nat /\ lots[s] <= p
  <2>1. \A x \in Strategies : lots[x] \in Nat
    OBVIOUS
  <2> QED
    BY <1>3, <2>1, AnyOfChooses, Adding!SumIsAbove
<1>5. q = p + d
  <2>1. Adding!DifferAt(lots, other, Strategies, s, d)
    BY DEF Adding!DifferAt
  <2>2. q = p + (IF s \in Strategies THEN d ELSE 0)
    BY <1>3, <2>1, AnyOfChooses, Adding!SumsDiffer
  <2> QED
    BY <2>2
<1> QED
  BY <1>2, <1>4, <1>5

LEMMA TotalIsNat ==
    ASSUME NEW lots \in [Strategies -> Nat]
    PROVE  TotalLots(lots) \in Nat
<1>1. PICK p : p = TotalLots(lots)
  OBVIOUS
<1>2. lots \in [Strategies -> Int] /\ \A x \in Strategies : lots[x] \in Nat
  OBVIOUS
<1>3. p = Adding!Fold(Strategies, 0, lots, 0)[Strategies]
  BY <1>1, <1>2, LotsAreFolded
<1>4. p \in Nat
  BY <1>2, <1>3, AnyOfChooses, Adding!SumIsAbove
<1> QED
  BY <1>1, <1>4

-----------------------------------------------------------------------------
(* The lots of the strategies.                                             *)

\* Steps that book nothing and start no exit.
LEMMA LotsRest ==
    ASSUME TypeOK, LotsInv, UNCHANGED <<accountLots, attachmentLots, appliedByClient, appliedByRef, closed>>,
           \A r \in Refs : /\ order'[r].strategy = order[r].strategy /\ order'[r].client = order[r].client
                           /\ order'[r].offset = order[r].offset /\ order'[r].volume = order[r].volume
                           /\ order[r].state = "free" => order'[r].state = "free"
                           /\ order[r].state = "failed" => order'[r].state = "failed"
    PROVE  LotsInv'
<1>1. \A r \in Refs : Booked(r)' = Booked(r)
  BY DEF Booked
<1>2. \A r \in Refs : Exiting(r)' => Exiting(r)
  BY DEF Exiting
<1>3. ExitsAreCovered'
  BY <1>1, <1>2 DEF LotsInv, ExitsAreCovered
<1> QED
  BY <1>3 DEF LotsInv, AttachmentsAddUp

\* A step moves one order on, from a state that is neither free nor failed.
LEMMA MovesKeepLots ==
    ASSUME IndInv, LotsInv, UNCHANGED <<accountLots, attachmentLots, appliedByClient, appliedByRef, closed>>,
           NEW r \in Refs, order[r].state \notin {"free", "failed"},
           \A q \in Refs : q # r => order'[q] = order[q],
           order'[r].strategy = order[r].strategy, order'[r].client = order[r].client,
           order'[r].offset = order[r].offset, order'[r].volume = order[r].volume
    PROVE  LotsInv'
<1>1. \A q \in Refs : /\ order'[q].strategy = order[q].strategy /\ order'[q].client = order[q].client
                      /\ order'[q].offset = order[q].offset /\ order'[q].volume = order[q].volume
                      /\ order[q].state = "free" => order'[q].state = "free"
                      /\ order[q].state = "failed" => order'[q].state = "failed"
  <2> TAKE q \in Refs
  <2>1. CASE q = r
    BY <2>1
  <2>2. CASE q # r
    BY <2>2
  <2> QED
    BY <2>1, <2>2
<1> QED
  BY <1>1, LotsRest DEF IndInv

\* A new exit is covered, and is the only one of its strategy.
LEMMA SubmitKeepsLots ==
    ASSUME OneExitAtATime = TRUE, IndInv, LotsInv,
           NEW s \in Strategies, NEW offset \in Offsets, NEW volume \in 1..MaxVolume,
           SubmitOrder(s, offset, volume)
    PROVE  LotsInv'
<1>0. TypeOK /\ volume \in Nat
  BY DEF IndInv
<1>1. PICK r \in Refs : r = orderRefSequence + 1
  BY MaxOrdersAssumption DEF SubmitOrder, RefAvailable, Refs, IndInv, TypeOK, TypeOfThreads
<1>2. PICK c : c = <<s, nextClientId[s] + 1>>
  OBVIOUS
<1>3. order' = [order EXCEPT ![r] = [strategy |-> s, client |-> c, offset |-> offset,
                                     volume |-> volume, state |-> "new", traded |-> 0]]
  BY <1>1, <1>2 DEF SubmitOrder
<1>4. /\ \A q \in Refs : q # r => order'[q] = order[q]
      /\ order'[r].strategy = s /\ order'[r].offset = offset
      /\ order'[r].volume = volume /\ order'[r].state = "new"
  BY <1>0, <1>3 DEF TypeOK, TypeOfBroker
<1>5. UNCHANGED <<accountLots, attachmentLots, closed>>
  BY DEF SubmitOrder, books
<1>6. \A q \in Refs : Booked(q)' = Booked(q)
  <2>1. booked' = booked
    BY SubmitBooksNothing
  <2> QED
    BY <2>1 DEF booked
<1>7. Booked(r) = 0
  <2>1. order[r] = NoOrder
    BY <1>0, <1>1 DEF IndInv, RefsInOrder, TypeOK, TypeOfThreads
  <2> QED
    BY <2>1 DEF Booked, NoOrder, IndInv, TableIsBehind
<1>8. offset = "Close" => /\ volume <= attachmentLots[s]
                          /\ \A q \in Refs : q # r => ~(Exiting(q) /\ order[q].strategy = s)
  <2>1. offset = "Close" => ExitSlotFree(s, volume)
    BY DEF SubmitOrder
  <2>2. \A q \in Refs : closed[q] \in Nat
    BY <1>0 DEF TypeOK, TypeOfBooks
  <2> QED
    BY <2>1, <2>2 DEF ExitSlotFree, Exiting
<1>9. \A q \in Refs : q # r => (Exiting(q)' <=> Exiting(q))
  BY <1>4, <1>5 DEF Exiting
<1>10. Exiting(r)' => offset = "Close"
  BY <1>4 DEF Exiting
<1>11. ExitsAreCovered'
  <2>1. \A q \in Refs : order'[q].state # "free" => order'[q].strategy \in Strategies
    BY <1>4 DEF LotsInv, ExitsAreCovered
  <2>2. \A q \in Refs : Exiting(q)' => order'[q].volume - Booked(q)' <= attachmentLots'[order'[q].strategy]
    <3> SUFFICES ASSUME NEW q \in Refs, Exiting(q)'
                 PROVE  order'[q].volume - Booked(q)' <= attachmentLots'[order'[q].strategy]
      OBVIOUS
    <3>1. CASE q = r
      BY <1>0, <1>4, <1>5, <1>6, <1>7, <1>8, <1>10, <3>1
    <3>2. CASE q # r
      BY <1>4, <1>5, <1>6, <1>9, <3>2 DEF LotsInv, ExitsAreCovered
    <3> QED
      BY <3>1, <3>2
  <2>3. \A p, q \in Refs : Exiting(p)' /\ Exiting(q)' /\ order'[p].strategy = order'[q].strategy => p = q
    <3> SUFFICES ASSUME NEW p \in Refs, NEW q \in Refs, Exiting(p)', Exiting(q)',
                        order'[p].strategy = order'[q].strategy, p # q
                 PROVE  FALSE
      OBVIOUS
    <3>1. CASE p # r /\ q # r
      BY <1>4, <1>9, <3>1 DEF LotsInv, ExitsAreCovered
    <3>2. CASE p = r
      BY <1>4, <1>8, <1>9, <1>10, <3>2
    <3>3. CASE q = r
      BY <1>4, <1>8, <1>9, <1>10, <3>3
    <3> QED
      BY <3>1, <3>2, <3>3
  <2> QED
    BY <1>5, <2>1, <2>2, <2>3 DEF LotsInv, ExitsAreCovered
<1> QED
  BY <1>5, <1>11 DEF LotsInv, AttachmentsAddUp

\* An event that adds nothing leaves the books as they are.
LEMMA EmptyEventKeepsLots ==
    ASSUME IndInv, LotsInv, ApplyLiveOrderEvent, FillDelta(Head(batch)) = 0
    PROVE  LotsInv'
<1>0. TypeOK
  BY DEF IndInv
<1>e. PICK e \in Event : e = Head(batch)
  BY <1>0, ApplyTakesHead
<1>1. order' = order /\ e.ref \in Refs
  BY EventsTyped DEF ApplyLiveOrderEvent, brokerVars, IndInv
<1>2. /\ appliedByClient \in [Clients -> Nat] /\ appliedByRef \in [Refs -> Nat]
      /\ closed \in [Refs -> Nat]
      /\ e.client \in Clients \union {NoClient}
  BY <1>0, EventsTyped DEF TypeOK, TypeOfBooks
<1>3. FillDelta(e) = 0
  BY <1>e
<1>4. appliedByClient' = appliedByClient /\ appliedByRef' = appliedByRef
  <2>1. CASE e.client # NoClient
    <3>1. appliedByRef' = appliedByRef /\ appliedByClient' = [appliedByClient EXCEPT ![e.client] = appliedByClient[e.client] + 0]
      BY <1>3, <1>e, <2>1 DEF ApplyLiveOrderEvent
    <3> QED
      BY <1>2, <2>1, <3>1
  <2>2. CASE e.client = NoClient
    <3>1. appliedByClient' = appliedByClient /\ appliedByRef' = [appliedByRef EXCEPT ![e.ref] = appliedByRef[e.ref] + 0]
      BY <1>3, <1>e, <2>2 DEF ApplyLiveOrderEvent
    <3> QED
      BY <1>1, <1>2, <3>1
  <2> QED
    BY <2>1, <2>2
<1>5. \A r \in Refs : Booked(r)' = Booked(r)
  BY <1>1, <1>4 DEF Booked
<1>6. attachmentLots \in [Strategies -> Nat]
  BY <1>0 DEF TypeOK, TypeOfBooks, LotsInv, ExitsAreCovered
<1>7. accountLots \in Nat
  BY <1>6, TotalIsNat DEF LotsInv, AttachmentsAddUp
<1>8. \A n \in Nat, o \in Offsets : LotsAfter(n, o, 0) = n
  BY DEF LotsAfter, MinOf
<1>o. order[e.ref].offset \in Offsets
  BY <1>0, <1>1 DEF TypeOK, TypeOfBroker, OrderRecord
<1>9. accountLots' = accountLots
  BY <1>3, <1>7, <1>8, <1>e, <1>o DEF ApplyLiveOrderEvent
<1>10. attachmentLots' = attachmentLots
  <2>1. PICK s, o : s = order[e.ref].strategy /\ o = order[e.ref].offset
    OBVIOUS
  <2>2. attachmentLots' = [attachmentLots EXCEPT ![s] = LotsAfter(attachmentLots[s], o, 0)]
    BY <1>3, <1>e, <2>1 DEF ApplyLiveOrderEvent
  <2>3. CASE s \in Strategies
    <3>1. LotsAfter(attachmentLots[s], o, 0) = attachmentLots[s]
      BY <1>6, <1>8, <1>o, <2>1, <2>3
    <3> QED
      BY <1>6, <2>2, <2>3, <3>1
  <2>4. CASE s \notin Strategies
    BY <1>6, <2>2, <2>4
  <2> QED
    BY <2>3, <2>4
<1>11. \A r \in Refs : closed'[r] = 0 => closed[r] = 0
  BY <1>1, <1>2 DEF ApplyLiveOrderEvent
<1>12. \A r \in Refs : Exiting(r)' => Exiting(r)
  BY <1>1, <1>11 DEF Exiting
<1>13. ExitsAreCovered'
  BY <1>1, <1>5, <1>10, <1>12 DEF LotsInv, ExitsAreCovered
<1> QED
  BY <1>9, <1>10, <1>13 DEF LotsInv, AttachmentsAddUp

\* What an event with a fill books, and of which order.
Books(e, r, s, delta) ==
    /\ delta \in Nat /\ delta > 0 /\ s \in Strategies
    /\ order' = order /\ closed[r] = 0
    /\ order[r].strategy = s /\ order[r].state \notin {"free", "failed"}
    /\ Booked(r) \in Nat /\ Booked(r) + delta <= order[r].volume
    /\ Booked(r)' = Booked(r) + delta
    /\ \A q \in Refs : q # r => Booked(q)' = Booked(q)
    /\ \A q \in Refs : closed'[q] = 0 => closed[q] = 0
    /\ accountLots' = LotsAfter(accountLots, order[r].offset, delta)
    /\ attachmentLots' = [attachmentLots EXCEPT ![s] = LotsAfter(attachmentLots[s], order[r].offset, delta)]

LEMMA FillBooks ==
    ASSUME IndInv, OrderOfEnds, LotsInv, ApplyLiveOrderEvent, FillDelta(Head(batch)) # 0
    PROVE  \E e \in Event, r \in Refs, s \in Strategies, delta \in Nat : Books(e, r, s, delta)
<1>0. TypeOK
  BY DEF IndInv
<1>e. PICK e \in Event : e = Head(batch) /\ e \in Told
  BY <1>0, ApplyTakesHead
<1>r. PICK r \in Refs : r = e.ref
  BY <1>0, EventsTyped
<1>1. order' = order
  BY DEF ApplyLiveOrderEvent, brokerVars
<1>2. /\ appliedByClient \in [Clients -> Nat] /\ appliedByRef \in [Refs -> Nat]
      /\ closed \in [Refs -> Nat]
      /\ e.client \in Clients \union {NoClient} /\ e.filled \in Nat
      /\ \A q \in Refs : order[q].client \in Clients \union {NoClient} /\ appliedByRef[q] = 0
  BY <1>0, EventsTyped, OrdersTyped DEF TypeOK, TypeOfBooks, IndInv, TableIsBehind
<1>3. /\ e.client \in {NoClient, order[r].client}
      /\ e.client = NoClient => e.filled = 0
      /\ e.filled <= order[r].traded
  <2>1. batch # <<>> /\ batch \in Seq(Event)
    BY <1>0 DEF ApplyLiveOrderEvent, TypeOK, TypeOfThreads
  <2>2. e = batch[1] /\ 1 \in 1..Len(batch)
    BY <1>e, <2>1, TailShifts
  <2> QED
    BY <1>r, <2>2 DEF IndInv, EventsAreCredible, Credible
<1>d. PICK delta \in Nat : delta = FillDelta(e) /\ delta > 0
  BY <1>e, <1>2, <1>r DEF FillDelta, AppliedBefore, MaxOf
<1>4. IsFillStatus(e.status) /\ delta = e.filled - AppliedBefore(e)
  BY <1>2, <1>d, <1>r DEF FillDelta, AppliedBefore, MaxOf
<1>5. e.client # NoClient /\ e.client = order[r].client /\ e.client \in Clients
  <2>1. CASE e.client = NoClient
    BY <1>2, <1>3, <1>4, <1>d, <1>r, <2>1 DEF AppliedBefore
  <2> QED
    BY <1>2, <1>3, <2>1
<1>6. /\ delta = e.filled - appliedByClient[e.client] /\ appliedByClient[e.client] \in Nat
      /\ order[r].traded \in Nat /\ order[r].volume \in Nat /\ order[r].traded <= order[r].volume
  BY <1>0, <1>2, <1>4, <1>5, OrdersTyped DEF AppliedBefore, IndInv, BrokerCounts
<1>7. Booked(r) = appliedByClient[e.client]
  BY <1>2, <1>5, <1>6 DEF Booked
<1>8. /\ appliedByClient' = [appliedByClient EXCEPT ![e.client] = appliedByClient[e.client] + delta]
      /\ appliedByRef' = appliedByRef
  BY <1>5, <1>d, <1>e DEF ApplyLiveOrderEvent
<1>9. Booked(r)' = Booked(r) + delta
  <2>1. appliedByClient'[e.client] = appliedByClient[e.client] + delta
    BY <1>2, <1>5, <1>8
  <2> QED
    BY <1>1, <1>2, <1>5, <1>6, <1>7, <1>8, <2>1 DEF Booked
<1>10. ASSUME NEW q \in Refs, q # r PROVE Booked(q)' = Booked(q)
  <2>1. order[q].client # e.client
    BY <1>5, <1>10 DEF IndInv, ClientsAreFresh
  <2>2. order[q].client # NoClient => appliedByClient'[order[q].client] = appliedByClient[order[q].client]
    BY <1>2, <1>8, <2>1
  <2> QED
    BY <1>1, <1>8, <2>2 DEF Booked
<1>11. closed[r] = 0
  <2>1. closed[r] \in Nat /\ ~(closed[r] > 0)
    BY <1>2, <1>4, <1>e, <1>r DEF OrderOfEnds, EndsStay
  <2> QED
    BY <2>1
<1>12. order[r].state \notin {"free", "failed"}
  <2>1. order[r].traded > 0
    BY <1>2, <1>3, <1>6, <1>d
  <2> QED
    BY <1>6, <2>1 DEF IndInv, BrokerCounts
<1>13. order[r].strategy \in Strategies
  BY <1>12 DEF LotsInv, ExitsAreCovered
<1>14. \A q \in Refs : closed'[q] = 0 => closed[q] = 0
  BY <1>2, <1>e, <1>r DEF ApplyLiveOrderEvent
<1>15. /\ accountLots' = LotsAfter(accountLots, order[r].offset, delta)
       /\ attachmentLots' = [attachmentLots EXCEPT ![order[r].strategy] =
                                LotsAfter(attachmentLots[order[r].strategy], order[r].offset, delta)]
  BY <1>d, <1>e, <1>r DEF ApplyLiveOrderEvent
<1>16. Booked(r) \in Nat /\ Booked(r) + delta <= order[r].volume
  BY <1>2, <1>3, <1>6, <1>7
<1> QED
  BY <1>1, <1>9, <1>10, <1>11, <1>12, <1>13, <1>14, <1>15, <1>16, <1>d DEF Books

\* A fill is booked whole on both sides: no lot is cut off by a position that
\* has none left.
LEMMA FillKeepsLots ==
    ASSUME TypeOK, LotsInv, NEW e, NEW r \in Refs, NEW s \in Strategies, NEW delta \in Nat, Books(e, r, s, delta)
    PROVE  LotsInv'
<1>1. /\ attachmentLots \in [Strategies -> Nat] /\ attachmentLots[s] \in Nat
      /\ order[r].offset \in Offsets
  BY DEF TypeOK, TypeOfBroker, OrderRecord, TypeOfBooks, LotsInv, ExitsAreCovered
<1>v. \A q \in Refs : order[q].volume \in Nat
  BY OrdersTyped
<1>2. accountLots \in Nat /\ attachmentLots[s] <= accountLots
  <2>1. PICK other : other = [attachmentLots EXCEPT ![s] = attachmentLots[s] + 0]
    OBVIOUS
  <2> QED
    BY <1>1, <2>1, TotalsFollow DEF LotsInv, AttachmentsAddUp
<1>3. \A q \in Refs : Exiting(q)' => Exiting(q)
  BY DEF Exiting, Books
<1>4. order[r].offset = "Close" => Exiting(r) /\ delta <= attachmentLots[s]
  <2> SUFFICES ASSUME order[r].offset = "Close" PROVE Exiting(r) /\ delta <= attachmentLots[s]
    OBVIOUS
  <2>1. Exiting(r)
    BY DEF Exiting, Books
  <2>2. order[r].volume - Booked(r) <= attachmentLots[s]
    BY <2>1 DEF LotsInv, ExitsAreCovered, Books
  <2> QED
    BY <1>1, <1>v, <2>1, <2>2 DEF Books
<1>d. PICK d \in Int : d = IF order[r].offset = "Open" THEN delta ELSE -delta
  OBVIOUS
<1>5. LotsAfter(attachmentLots[s], order[r].offset, delta) = attachmentLots[s] + d
      /\ LotsAfter(accountLots, order[r].offset, delta) = accountLots + d
  <2>1. CASE order[r].offset = "Open"
    BY <1>1, <1>2, <1>d, <2>1 DEF LotsAfter
  <2>2. CASE order[r].offset = "Close"
    <3>1. MinOf(accountLots, delta) = delta /\ MinOf(attachmentLots[s], delta) = delta
      BY <1>1, <1>2, <1>4, <2>2 DEF MinOf
    <3>2. d = -delta
      BY <1>d, <2>2
    <3> QED
      BY <1>1, <1>2, <2>2, <3>1, <3>2 DEF LotsAfter
  <2> QED
    BY <1>1, <2>1, <2>2 DEF Offsets
<1>b. /\ attachmentLots' = [attachmentLots EXCEPT ![s] = attachmentLots[s] + d]
      /\ accountLots' = accountLots + d
  BY <1>5 DEF Books
<1>6. AttachmentsAddUp'
  <2>1. PICK other : other = attachmentLots'
    OBVIOUS
  <2>2. TotalLots(other) = TotalLots(attachmentLots) + d
    BY <1>1, <1>b, <2>1, TotalsFollow
  <2> QED
    BY <1>b, <2>1, <2>2 DEF LotsInv, AttachmentsAddUp
<1>7. /\ attachmentLots'[s] = attachmentLots[s] + d /\ attachmentLots'[s] \in Nat
      /\ \A t \in Strategies : t # s => attachmentLots'[t] = attachmentLots[t]
  <2>1. attachmentLots[s] + d \in Nat
    BY <1>1, <1>4, <1>d DEF Offsets
  <2> QED
    BY <1>1, <1>b, <2>1
<1>8. \A t \in Strategies : attachmentLots'[t] \in Nat
  BY <1>1, <1>7
<1>9. \A q \in Refs : order[q].state # "free" => order[q].strategy \in Strategies
  BY DEF LotsInv, ExitsAreCovered
<1>10. ASSUME NEW q \in Refs, Exiting(q)'
       PROVE  order[q].volume - Booked(q)' <= attachmentLots'[order[q].strategy]
  <2>1. /\ Exiting(q) /\ order[q].strategy \in Strategies /\ order[q].offset = "Close"
        /\ order[q].volume - Booked(q) <= attachmentLots[order[q].strategy]
    BY <1>3, <1>9, <1>10 DEF LotsInv, ExitsAreCovered, Exiting
  <2>2. CASE q = r
    <3>1. d = -delta
      BY <1>d, <2>1, <2>2
    <3> QED
      BY <1>1, <1>7, <1>v, <2>1, <2>2, <3>1 DEF Books
  <2>3. CASE q # r /\ order[q].strategy # s
    BY <1>7, <2>1, <2>3 DEF Books
  <2>4. CASE q # r /\ order[q].strategy = s
    <3>1. order[r].offset # "Close"
      BY <1>4, <2>1, <2>4 DEF LotsInv, ExitsAreCovered, Books
    <3>2. d = delta
      BY <1>1, <1>d, <3>1 DEF Offsets
    <3>3. Booked(q)' = Booked(q)
      BY <2>4 DEF Books
    <3>4. attachmentLots[s] <= attachmentLots'[s]
      BY <1>1, <1>7, <3>2
    <3>5. Booked(q) \in Nat
      BY OrdersTyped DEF Booked, TypeOK, TypeOfBooks
    <3> QED
      BY <1>1, <1>7, <1>v, <2>1, <2>4, <3>3, <3>4, <3>5
  <2> QED
    BY <2>2, <2>3, <2>4
<1>11. \A p, q \in Refs : Exiting(p)' /\ Exiting(q)' /\ order[p].strategy = order[q].strategy => p = q
  BY <1>3 DEF LotsInv, ExitsAreCovered
<1>12. order' = order
  BY DEF Books
<1>13. ExitsAreCovered'
  BY <1>8, <1>9, <1>10, <1>11, <1>12 DEF ExitsAreCovered
<1> QED
  BY <1>6, <1>13 DEF LotsInv

LEMMA LotsStep ==
    ASSUME OneExitAtATime = TRUE, IndInv, OrderOfEnds, LotsInv, [Next]_vars
    PROVE  LotsInv'
<1>0. TypeOK
  BY DEF IndInv
<1>1. CASE (\E ioc \in BOOLEAN : InsertSent(ioc)) \/ InsertFails
  <2>1. PICK r \in Refs : r = main.ref
    BY <1>0, <1>1 DEF InsertSent, InsertFails, TypeOK, TypeOfThreads
  <2>2. PICK to \in {"sent", "failed"} : order' = [order EXCEPT ![r].state = to]
    BY <1>1, <2>1 DEF InsertSent, InsertFails
  <2>3. order[r].state = "new" /\ UNCHANGED <<accountLots, attachmentLots, appliedByClient, appliedByRef, closed>>
    BY <1>1, <2>1 DEF InsertSent, InsertFails, books, IndInv, SubmissionAnswerable
  <2>4. /\ \A q \in Refs : q # r => order'[q] = order[q]
        /\ order'[r].strategy = order[r].strategy /\ order'[r].client = order[r].client
        /\ order'[r].offset = order[r].offset /\ order'[r].volume = order[r].volume
    BY <1>0, <2>2 DEF TypeOK, TypeOfBroker, OrderRecord
  <2> QED
    BY <2>3, <2>4, MovesKeepLots
<1>2. CASE EraseFailedInsert \/ PushSubmitted \/ DrainOrderEvents \/ Callback \/ \E c \in Clients : CancelOrder(c)
  <2>1. UNCHANGED <<order, accountLots, attachmentLots, appliedByClient, appliedByRef, closed>>
    BY <1>2 DEF EraseFailedInsert, PushSubmitted, DrainOrderEvents, Callback, OnRspOrderInsert, OnRtnOrder,
                OnRtnTrade, PushSpiEvent, EraseTerminal, CancelOrder, brokerVars, books
  <2> QED
    BY <1>0, <2>1, LotsRest
<1>3. CASE ApplyLiveOrderEvent
  <2>1. CASE FillDelta(Head(batch)) = 0
    BY <1>3, <2>1, EmptyEventKeepsLots
  <2>2. CASE FillDelta(Head(batch)) # 0
    BY <1>0, <1>3, <2>2, FillBooks, FillKeepsLots
  <2> QED
    BY <2>1, <2>2
<1>4. CASE \E s \in Strategies, offset \in Offsets, volume \in 1..MaxVolume : SubmitOrder(s, offset, volume)
  BY <1>4, SubmitKeepsLots
<1>5. CASE Broker
  <2>1. PICK r \in Refs : \/ BrokerAccepts(r) \/ BrokerRefuses(r) \/ BrokerCancels(r)
                          \/ \E volume \in 1..MaxVolume : BrokerTrades(r, volume)
    BY <1>5 DEF Broker
  <2>2. /\ UNCHANGED <<accountLots, attachmentLots, appliedByClient, appliedByRef, closed>>
        /\ order[r].state \in {"sent", "working"}
    BY <2>1 DEF BrokerAccepts, BrokerRefuses, BrokerCancels, BrokerTrades, BrokerStep, books
  <2>3. /\ \A q \in Refs : q # r => order'[q] = order[q]
        /\ order'[r].strategy = order[r].strategy /\ order'[r].client = order[r].client
        /\ order'[r].offset = order[r].offset /\ order'[r].volume = order[r].volume
    <3>1. order[r] \in OrderRecord /\ order \in [Refs -> OrderRecord]
      BY <1>0 DEF TypeOK, TypeOfBroker
    <3>2. CASE BrokerAccepts(r) \/ BrokerRefuses(r) \/ BrokerCancels(r)
      <4>1. PICK to : order' = [order EXCEPT ![r].state = to]
        BY <3>2 DEF BrokerAccepts, BrokerRefuses, BrokerCancels, BrokerStep
      <4> QED
        BY <3>1, <4>1 DEF OrderRecord
    <3>3. CASE \E volume \in 1..MaxVolume : BrokerTrades(r, volume)
      <4>1. PICK total, to : order' = [order EXCEPT ![r].traded = total, ![r].state = to]
        BY <3>3 DEF BrokerTrades
      <4> QED
        BY <3>1, <4>1 DEF OrderRecord
    <3> QED
      BY <2>1, <3>2, <3>3
  <2> QED
    BY <2>2, <2>3, MovesKeepLots
<1>6. CASE UNCHANGED vars
  <2>1. UNCHANGED <<order, accountLots, attachmentLots, appliedByClient, appliedByRef, closed>>
    BY <1>6 DEF vars, brokerVars, books
  <2> QED
    BY <1>0, <2>1, LotsRest
<1> QED
  BY <1>1, <1>2, <1>3, <1>4, <1>5, <1>6 DEF Next, Submission, EventLoop, Strategy

(* The account's position is always the sum of its strategies' positions   *)
(* and, with nothing in flight, every lot that traded is in both: provided  *)
(* they were hydrated so and every strategy closes its own lots only, one  *)
(* exit order at a time (apply_live_order_event, apply_fill_to_inventory).  *)
THEOREM BooksAlwaysAddUp ==
    ASSUME OneExitAtATime = TRUE, BrokerLots = TotalLots(InitialLots)
    PROVE  SafeSpec => []QuietBooksAreComplete
<1>1. Init => OrderOfEnds /\ LotsInv
  <2>1. Init => LotsInv
    BY InitialLotsAssumption DEF Init, LotsInv, ExitsAreCovered, Exiting, AttachmentsAddUp, NoOrder
  <2> QED
    BY <2>1, InitOrder
<1>2. IndInv /\ IndInv' /\ OrderOfEnds /\ LotsInv /\ [Next]_vars => OrderOfEnds' /\ LotsInv'
  BY EndsKeepOrder, LotsStep
<1>3. LotsInv => AttachmentsAddUp
  BY DEF LotsInv
<1>4. QuietBooksAreComplete <=> AttachmentsAddUp /\ NothingIsMissing
  BY DEF QuietBooksAreComplete
<1> QED
  BY <1>1, <1>2, <1>3, <1>4, FillsAreTracked, EveryFillIsBooked, PTL DEF SafeSpec
=============================================================================
