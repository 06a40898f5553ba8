------------------------ MODULE LiveRecovery_proofs ------------------------
(***************************************************************************)
(* What the live process remembers, for any number of strategies, accounts *)
(* and orders, and any number of faults: the books of an account add up, a *)
(* recovered trade is replayed once, a manual adjustment is applied once,  *)
(* and every trade reaches its strategy.                                   *)
(* The sums over books and the drain of the event queues are folds; the    *)
(* facts about them are instances of FoldFacts.                            *)
(***************************************************************************)
EXTENDS LiveRecovery, TLAPS, FiniteSetTheorems

Item(a, i) == a[i]
Itself(a, x) == x
AnyOf(S) == CHOOSE x \in S : TRUE
LastOf(S) == Max(S)

Add(e, n, m) == n + m
ApplyEvent(e, event, p) == apply_live_order_event(p, event)
DrainAccount(e, a, p) == FoldLeft(apply_live_order_event, p, gateway[a].events)

Adding == INSTANCE FoldFacts WITH Op <- Add, Pick <- AnyOf, At <- Item
Applying == INSTANCE FoldFacts WITH Op <- ApplyEvent, Pick <- LastOf, At <- Item
Draining == INSTANCE FoldFacts WITH Op <- DrainAccount, Pick <- AnyOf, At <- Itself

-----------------------------------------------------------------------------
(* Sums over a book.                                                       *)

LEMMA LotsAreFolded ==
    ASSUME NEW book, NEW keys
    PROVE  Lots(book, keys) = Adding!Fold(keys, 0, book, 0)[keys]
  BY DEF Lots, FoldFunctionOnSet, MapThenFoldSet, Adding!Fold, Adding!Solves, AnyOf, Item, Add

LEMMA AnyOfChooses ==
    ASSUME NEW S, IsFiniteSet(S)
    PROVE  Adding!Chosen(S) /\ Adding!IsFiniteSet(S)
  BY DEF Adding!Chosen, AnyOf, Adding!IsFiniteSet, IsFiniteSet

DifferAt(f, g, S, k, d) ==
    /\ d \in Int
    /\ \A x \in S : f[x] \in Int
    /\ \A x \in S \ {k} : g[x] = f[x]
    /\ k \in S => g[k] = f[k] + d

\* Two books that differ by d at one key differ by d in every sum over it.
LEMMA SumsDiffer ==
    ASSUME NEW S, IsFiniteSet(S), NEW f, NEW g, NEW k, NEW d, DifferAt(f, g, S, k, d)
    PROVE  /\ Lots(f, S) \in Int
           /\ Lots(g, S) = Lots(f, S) + (IF k \in S THEN d ELSE 0)
<1>1. Adding!Adds /\ Adding!Chosen(S) /\ Adding!IsFiniteSet(S)
  BY AnyOfChooses DEF Adding!Adds, Adding!AddsUp, Add, Item
<1>2. Adding!DifferAt(f, g, S, k, d)
  BY DEF DifferAt, Adding!DifferAt
<1>3. /\ Adding!Fold(S, 0, f, 0)[S] \in Int
      /\ Adding!Fold(S, 0, g, 0)[S] = Adding!Fold(S, 0, f, 0)[S] + (IF k \in S THEN d ELSE 0)
  BY <1>1, <1>2, Adding!SumsDiffer
<1> QED
  BY <1>3, LotsAreFolded

\* The sum only looks at its keys.
LEMMA SameSums ==
    ASSUME NEW S, IsFiniteSet(S), NEW f, NEW g,
           \A x \in S : f[x] \in Int /\ g[x] = f[x]
    PROVE  Lots(f, S) \in Int /\ Lots(g, S) = Lots(f, S)
<1>1. DifferAt(f, g, S, 0, 0)
  BY DEF DifferAt
<1>2. /\ Lots(f, S) \in Int
      /\ Lots(g, S) = Lots(f, S) + (IF 0 \in S THEN 0 ELSE 0)
  BY <1>1, SumsDiffer
<1> QED
  BY <1>2

\* Sums of what is not negative.
LEMMA SumsOfNat ==
    ASSUME NEW S, IsFiniteSet(S), NEW f, \A x \in S : f[x] \in Nat
    PROVE  Lots(f, S) \in Nat
<1>1. Adding!Chosen(S) /\ Adding!IsFiniteSet(S)
  BY AnyOfChooses
<1>2. \A i \in S : \A value \in Nat : Add(0, Item(f, i), value) \in Nat
  BY DEF Add, Item
<1>3. Adding!Fold(S, 0, f, 0)[S] \in Nat
  BY <1>1, <1>2, Adding!FoldKeeps
<1> QED
  BY <1>3, LotsAreFolded

\* What adds up to nothing is nothing.
LEMMA NoneOfNothing ==
    ASSUME NEW S, IsFiniteSet(S), NEW f, \A x \in S : f[x] \in Nat, Lots(f, S) = 0
    PROVE  \A k \in S : f[k] = 0
<1> TAKE k \in S
<1> DEFINE g == [x \in S |-> IF x = k THEN 0 ELSE f[x]]
<1>1. Lots(g, S) \in Nat
  BY SumsOfNat
<1>2. Lots(g, S) = Lots(f, S) + -f[k]
  <2>1. DifferAt(f, g, S, k, -f[k])
    BY DEF DifferAt
  <2> HIDE DEF g
  <2> QED
    BY <2>1, SumsDiffer
<1> QED
  BY <1>1, <1>2

-----------------------------------------------------------------------------
(* Types.                                                                  *)

Record == [order : Orders, trade : Nat, lots : Nat]
Inventory == [lots : [Keys -> Nat], adjusted : BOOLEAN, fills : SUBSET Record]
Memory == [seen : SUBSET Trades, orders : SUBSET Orders]
Kinds == {"accepted", "trade", "cancel"}
Event == [kind : Kinds, order : Orders, trade : Nat, filled : Nat \ {0}, last : BOOLEAN, bound : BOOLEAN]

Places == {"down", "waiting", "positions", "orders", "seed", "trades",
           "telemetry", "inventory", "state", "top", "ticks"}

Process ==
    [pc : Places, starting : BOOLEAN, todo : SUBSET Accounts,
     answer : SUBSET [order : Orders, traded : Nat, bound : BOOLEAN],
     enabled : [Accounts -> BOOLEAN],
     books : [Accounts -> {"unread", "agree", "differ", "doubtful"}],
     lots : [Accounts -> Nat], attached : [Strategies -> Nat],
     opened : SUBSET Orders, closed : SUBSET Record,
     applied : [Orders -> [client : Nat, ref : Nat]],
     inventory : Inventory, bindings : SUBSET Orders, memory : Memory,
     recovered : SUBSET Trades, replays : [Trades -> Nat],
     recorded : SUBSET Trades, failed : BOOLEAN]

OnItsWay == [kind : Kinds, order : Orders, trade : Nat]
Session == [ready : BOOLEAN, reports : Seq(OnItsWay), events : Seq(Event)]

TypeOK ==
    /\ config \in Configurations
    /\ broker \in [Orders -> [state : {"unsent", "working", "done"}, traded : Nat]]
    /\ gateway \in [Accounts -> Session]
    /\ refs \in [Orders -> [bound : BOOLEAN, filled : Nat]]
    /\ live \in Process
    /\ files \in [telemetry : SUBSET Record, inventory : Inventory, state : Memory]

LEMMA KeysAreFinite ==
    ASSUME NEW a
    PROVE  IsFiniteSet(OrdersOf(a)) /\ IsFiniteSet(KeysOf(a)) /\ IsFiniteSet(StrategiesOf(a))
<1>1. OrdersOf(a) \subseteq Orders /\ StrategiesOf(a) \subseteq Strategies
  BY DEF OrdersOf, StrategiesOf
<1>2. IsFiniteSet(OrdersOf(a)) /\ IsFiniteSet(StrategiesOf(a))
  BY <1>1, FiniteAssumption, FS_Subset
<1>3. IsFiniteSet({Manual}) /\ IsFiniteSet({})
  BY FS_EmptySet, FS_Singleton
<1> QED
  BY <1>2, <1>3, FS_Union DEF KeysOf

\* The account's books and the broker's are sums of lots.
LEMMA BrokerLotsType ==
    ASSUME TypeOK, NEW a
    PROVE  BrokerLots(a) \in Nat
<1> DEFINE traded == [o \in Orders |-> broker[o].traded]
<1>1. \A o \in OrdersOf(a) : traded[o] \in Nat
  BY DEF OrdersOf, TypeOK
<1>2. Lots(traded, OrdersOf(a)) \in Nat
  <2> HIDE DEF traded
  <2> QED
    BY <1>1, KeysAreFinite, SumsOfNat
<1> QED
  BY <1>2 DEF BrokerLots

LEMMA TradesType == Trades \subseteq Orders \X Nat
<1> SUFFICES ASSUME NEW t \in Trades PROVE t \in Orders \X Nat
  OBVIOUS
<1> DEFINE volumes == {Volume[o] : o \in Orders}
<1>1. IsFiniteSet(volumes)
  <2>1. Volume \in Surjection(Orders, volumes)
    BY VolumeAssumption DEF Surjection
  <2> QED
    BY <2>1, FiniteAssumption, FS_Surjection
<1>2. volumes \subseteq Int /\ volumes # {}
  BY VolumeAssumption DEF Trades
<1>3. Adding!IsFiniteSet(volumes)
  BY <1>1 DEF Adding!IsFiniteSet, IsFiniteSet
<1>4. \E m \in volumes : \A n \in volumes : m >= n
  <2> HIDE DEF volumes
  <2> QED
    BY <1>2, <1>3, Adding!GreatestExists
<1>5. Max(volumes) \in Int
  BY <1>2, <1>4 DEF Max
<1>6. t \in Orders \X (1 .. Max(volumes))
  BY DEF Trades
<1> HIDE DEF volumes
<1> QED
  BY <1>5, <1>6

-----------------------------------------------------------------------------
(* Applying the queued events: the books move with the attachments.        *)

\* An account whose books agree holds what its keys hold.
BooksAgree(p) ==
    \A a \in Accounts : p.books[a] = "agree" =>
        p.lots[a] = Lots(Held(p.attached, p.inventory.lots), KeysOf(a))

\* What the events of a queue leave alone.
Untouched(base, p) ==
    /\ p.pc = base.pc /\ p.starting = base.starting /\ p.todo = base.todo
    /\ p.answer = base.answer /\ p.enabled = base.enabled /\ p.books = base.books
    /\ p.inventory = base.inventory /\ p.bindings = base.bindings
    /\ p.recovered = base.recovered /\ p.replays = base.replays
    /\ p.recorded = base.recorded /\ p.failed = base.failed
    /\ base.closed \subseteq p.closed

DrainedFrom(base) == {p \in Process : Untouched(base, p) /\ BooksAgree(p)}

LEMMA DeltaType ==
    ASSUME NEW p \in Process, NEW event \in Event
    PROVE  consume_live_fill_delta(p.applied, event) \in Nat
  BY DEF consume_live_fill_delta, Process, Event

LEMMA EventKeepsTypes ==
    ASSUME TypeOK, NEW p \in Process, NEW event \in Event
    PROVE  /\ apply_live_order_event(p, event) \in Process
           /\ Untouched(p, apply_live_order_event(p, event))
<1> DEFINE o == event.order
<1>1. PICK delta \in Nat : delta = consume_live_fill_delta(p.applied, event)
  BY DeltaType
<1>2. o \in Orders /\ Owner[o] \in Strategies /\ AccountOf(o) \in Accounts
  BY OwnerAssumption, ConfigurationsAssumption DEF TypeOK, AccountOf, Event
<1>3. PICK lots : lots = [p.lots EXCEPT ![AccountOf(o)] = @ + delta]
  OBVIOUS
<1>4. PICK attached : attached = [p.attached EXCEPT ![Owner[o]] = @ + delta]
  OBVIOUS
<1>5. PICK counts : counts =
          IF event.bound THEN [client |-> p.applied[o].client + delta, ref |-> p.applied[o].ref]
          ELSE [client |-> p.applied[o].client, ref |-> p.applied[o].ref + delta]
  OBVIOUS
<1>6. PICK applied : applied = [p.applied EXCEPT ![o] = counts]
  OBVIOUS
<1>7. PICK opened : opened = IF event.last THEN p.opened \ {o} ELSE p.opened \union {o}
  OBVIOUS
<1>8. PICK closed : closed = IF event.last /\ event.kind = "trade"
                             THEN p.closed \union {Fill(o, event.trade, event.filled)}
                             ELSE p.closed
  OBVIOUS
<1>9. PICK memory : memory = IF event.kind = "trade" THEN Told(p.memory, LotsToldBy(event))
                             ELSE p.memory
  OBVIOUS
<1>10. apply_live_order_event(p, event) =
          [p EXCEPT !.lots = lots, !.attached = attached, !.applied = applied,
                    !.opened = opened, !.closed = closed, !.memory = memory]
  BY <1>1, <1>2, <1>3, <1>4, <1>5, <1>6, <1>7, <1>8, <1>9 DEF apply_live_order_event, Process
<1>11. lots \in [Accounts -> Nat]
  BY <1>2, <1>3 DEF Process
<1>12. attached \in [Strategies -> Nat]
  BY <1>2, <1>4 DEF Process
<1>13. applied \in [Orders -> [client : Nat, ref : Nat]]
  <2>1. p.applied[o] \in [client : Nat, ref : Nat]
    BY <1>2 DEF Process
  <2>2. counts \in [client : Nat, ref : Nat]
    BY <1>5, <2>1
  <2>3. p.applied \in [Orders -> [client : Nat, ref : Nat]]
    BY DEF Process
  <2> QED
    BY <1>2, <1>6, <2>2, <2>3
<1>14. opened \in SUBSET Orders
  BY <1>2, <1>7 DEF Process
<1>15. closed \in SUBSET Record
  <2>1. Fill(o, event.trade, event.filled) \in Record
    BY <1>2 DEF Fill, Record, Event
  <2> QED
    BY <1>8, <2>1 DEF Process
<1>16. memory \in Memory
  BY <1>9 DEF Process, Memory, Told, LotsToldBy
<1> HIDE DEF o
<1>17. apply_live_order_event(p, event) \in Process
  BY <1>10, <1>11, <1>12, <1>13, <1>14, <1>15, <1>16, ZenonT(60) DEF Process
<1>18. p.closed \subseteq closed
  BY <1>8
<1>19. Untouched(p, apply_live_order_event(p, event))
  BY <1>10, <1>18 DEF Untouched, Process
<1> QED
  BY <1>17, <1>19

\* What an event adds to the attachment of the order's strategy it adds to the
\* books of the strategy's account, and to no other.
LEMMA EventKeepsBooks ==
    ASSUME TypeOK, NEW p \in Process, BooksAgree(p), NEW event \in Event
    PROVE  BooksAgree(apply_live_order_event(p, event))
<1>1. PICK q : q = apply_live_order_event(p, event)
  OBVIOUS
<1>2. PICK s \in Strategies : s = Owner[event.order]
  BY OwnerAssumption DEF Event
<1>3. PICK delta \in Nat : delta = consume_live_fill_delta(p.applied, event)
  BY DeltaType
<1>4. /\ config.account[s] \in Accounts /\ AccountOf(event.order) = config.account[s]
      /\ \A a \in Accounts : s \in KeysOf(a) <=> a = config.account[s]
  BY <1>2, ConfigurationsAssumption, ManualAssumption DEF TypeOK, AccountOf, KeysOf, StrategiesOf
<1>5. /\ q.books = p.books /\ q.inventory = p.inventory
      /\ q.lots = [p.lots EXCEPT ![config.account[s]] = @ + delta]
      /\ q.attached = [p.attached EXCEPT ![s] = @ + delta]
  BY <1>1, <1>2, <1>3, <1>4 DEF apply_live_order_event, Process
<1> SUFFICES ASSUME NEW a \in Accounts, p.books[a] = "agree"
             PROVE  q.lots[a] = Lots(Held(q.attached, q.inventory.lots), KeysOf(a))
  BY <1>1, <1>5 DEF BooksAgree
<1>6. PICK f : f = Held(p.attached, p.inventory.lots)
  OBVIOUS
<1>7. PICK g : g = Held(q.attached, q.inventory.lots)
  OBVIOUS
<1>8. DifferAt(f, g, KeysOf(a), s, delta)
  <2>1. KeysOf(a) \subseteq Keys /\ s \in Keys
    BY DEF KeysOf, StrategiesOf, Keys
  <2>2. p.attached \in [Strategies -> Nat] /\ p.inventory.lots \in [Keys -> Nat]
    BY DEF Process, Inventory
  <2>3. \A k \in Keys : f[k] \in Int /\ g[k] = IF k = s THEN f[k] + delta ELSE f[k]
    BY <1>5, <1>6, <1>7, <2>2 DEF Held
  <2> QED
    BY <2>1, <2>3 DEF DifferAt
<1>9. Lots(g, KeysOf(a)) = Lots(f, KeysOf(a)) + (IF s \in KeysOf(a) THEN delta ELSE 0)
  BY <1>8, KeysAreFinite, SumsDiffer
<1>10. p.lots[a] = Lots(f, KeysOf(a)) /\ p.lots[a] \in Nat
  BY <1>6 DEF BooksAgree, Process
<1>11. q.lots[a] = p.lots[a] + (IF a = config.account[s] THEN delta ELSE 0)
  BY <1>4, <1>5, <1>10 DEF Process
<1> QED
  BY <1>4, <1>7, <1>9, <1>10, <1>11

LEMMA EventKeeps ==
    ASSUME TypeOK, NEW base, NEW p \in DrainedFrom(base), NEW event \in Event
    PROVE  apply_live_order_event(p, event) \in DrainedFrom(base)
<1>1. p \in Process /\ BooksAgree(p) /\ Untouched(base, p)
  BY DEF DrainedFrom
<1>2. /\ apply_live_order_event(p, event) \in Process
      /\ Untouched(p, apply_live_order_event(p, event))
      /\ BooksAgree(apply_live_order_event(p, event))
  BY <1>1, EventKeepsTypes, EventKeepsBooks
<1>3. Untouched(base, apply_live_order_event(p, event))
  BY <1>1, <1>2 DEF Untouched
<1> QED
  BY <1>2, <1>3 DEF DrainedFrom

\* The queue of an account is folded from its first event to its last.
LEMMA QueueIsFolded ==
    ASSUME NEW p, NEW events \in Seq(Event), NEW S, S = DOMAIN events
    PROVE  /\ Applying!IsFiniteSet(S) /\ Applying!Chosen(S)
           /\ FoldLeft(apply_live_order_event, p, events) = Applying!Fold(S, p, events, 0)[S]
<1>1. IsFiniteSet(S) /\ S \subseteq Int
  <2>1. S = 1 .. Len(events)
    OBVIOUS
  <2> QED
    BY <2>1, FS_Interval
<1>2. Applying!IsFiniteSet(S)
  BY <1>1 DEF Applying!IsFiniteSet, IsFiniteSet
<1>3. Applying!Chosen(S)
  <2> SUFFICES ASSUME NEW T \in SUBSET S, T # {}
               PROVE  LastOf(T) \in T
    BY DEF Applying!Chosen
  <2>1. IsFiniteSet(T) /\ T \subseteq Int
    BY <1>1, FS_Subset
  <2>2. Applying!IsFiniteSet(T)
    BY <2>1 DEF Applying!IsFiniteSet, IsFiniteSet
  <2>3. \E m \in T : \A n \in T : m >= n
    BY <2>1, <2>2, Applying!GreatestExists
  <2> QED
    BY <2>3 DEF LastOf, Max
<1>4. FoldLeft(apply_live_order_event, p, events) = Applying!Fold(S, p, events, 0)[S]
  BY DEF FoldLeft, MapThenFoldSet, Applying!Fold, Applying!Solves, LastOf, Item, ApplyEvent
<1> QED
  BY <1>2, <1>3, <1>4

\* The queue of one account, then those of all of them.
LEMMA QueueKeeps ==
    ASSUME TypeOK, NEW base, NEW p \in DrainedFrom(base), NEW events \in Seq(Event)
    PROVE  FoldLeft(apply_live_order_event, p, events) \in DrainedFrom(base)
<1> DEFINE S == DOMAIN events
<1>1. /\ Applying!IsFiniteSet(S) /\ Applying!Chosen(S)
      /\ FoldLeft(apply_live_order_event, p, events) = Applying!Fold(S, p, events, 0)[S]
  BY QueueIsFolded
<1>5. \A i \in S : \A q \in DrainedFrom(base) : ApplyEvent(0, Item(events, i), q) \in DrainedFrom(base)
  <2> SUFFICES ASSUME NEW i \in S, NEW q \in DrainedFrom(base)
               PROVE  apply_live_order_event(q, events[i]) \in DrainedFrom(base)
    BY DEF ApplyEvent, Item
  <2>1. events[i] \in Event
    OBVIOUS
  <2> QED
    BY <2>1, EventKeeps
<1>6. Applying!Fold(S, p, events, 0)[S] \in DrainedFrom(base)
  <2> HIDE DEF S
  <2> QED
    BY <1>1, <1>5, Applying!FoldKeeps
<1> QED
  BY <1>1, <1>6

Drained == FoldSet(LAMBDA a, p : FoldLeft(apply_live_order_event, p, gateway[a].events), live, Accounts)

LEMMA QueuesAreFolded ==
    /\ Draining!Chosen(Accounts) /\ Draining!IsFiniteSet(Accounts)
    /\ Drained = Draining!Fold(Accounts, live, 0, 0)[Accounts]
<1>1. Draining!Chosen(Accounts) /\ Draining!IsFiniteSet(Accounts)
  BY FiniteAssumption DEF Draining!Chosen, AnyOf, Draining!IsFiniteSet, IsFiniteSet
<1>2. Drained = Draining!Fold(Accounts, live, 0, 0)[Accounts]
  BY DEF Drained, FoldSet, MapThenFoldSet, Draining!Fold, Draining!Solves, AnyOf, Itself, DrainAccount
<1> QED
  BY <1>1, <1>2

LEMMA QueuesKeep ==
    ASSUME TypeOK, BooksAgree(live)
    PROVE  Drained \in DrainedFrom(live)
<1>3. \A a \in Accounts : \A p \in DrainedFrom(live) :
          DrainAccount(0, Itself(0, a), p) \in DrainedFrom(live)
  <2> SUFFICES ASSUME NEW a \in Accounts, NEW p \in DrainedFrom(live)
               PROVE  FoldLeft(apply_live_order_event, p, gateway[a].events) \in DrainedFrom(live)
    BY DEF DrainAccount, Itself
  <2>1. gateway[a].events \in Seq(Event)
    BY DEF TypeOK, Session
  <2> QED
    BY <2>1, QueueKeeps
<1>4. live \in DrainedFrom(live)
  BY DEF DrainedFrom, Untouched, TypeOK
<1>5. PICK base, Good : base = live /\ Good = DrainedFrom(live)
  OBVIOUS
<1>6. Draining!Fold(Accounts, base, 0, 0)[Accounts] \in Good
  BY <1>3, <1>4, <1>5, QueuesAreFolded, Draining!FoldKeeps
<1> QED
  BY <1>5, <1>6, QueuesAreFolded

-----------------------------------------------------------------------------
(* Every step keeps the types.                                             *)

\* Where an order's events go.
LEMMA OwnersAccount ==
    ASSUME TypeOK, NEW o \in Orders
    PROVE  Owner[o] \in Strategies /\ AccountOf(o) \in Accounts
  BY OwnerAssumption, ConfigurationsAssumption DEF TypeOK, AccountOf

LEMMA ReportTypes ==
    ASSUME TypeOK, NEW a \in Accounts, NEW kind \in Kinds, NEW o \in Orders, NEW k \in Nat,
           Report(a, kind, o, k)
    PROVE  gateway' \in [Accounts -> Session]
<1>1. [kind |-> kind, order |-> o, trade |-> k] \in OnItsWay
  BY DEF OnItsWay
<1>2. gateway[a] \in Session /\ gateway \in [Accounts -> Session]
  BY DEF TypeOK
<1>3. [gateway[a] EXCEPT !.reports = Append(@, [kind |-> kind, order |-> o, trade |-> k])] \in Session
  <2>1. PICK r : r = Append(gateway[a].reports, [kind |-> kind, order |-> o, trade |-> k])
    OBVIOUS
  <2>2. r \in Seq(OnItsWay)
    BY <1>1, <1>2, <2>1 DEF Session
  <2>3. [gateway[a] EXCEPT !.reports = r] \in Session
    BY <1>2, <2>2 DEF Session
  <2> QED
    BY <1>2, <2>1, <2>3 DEF Session
<1> QED
  BY <1>2, <1>3 DEF Report

LEMMA BrokerTypes ==
    ASSUME TypeOK, NEW o \in Orders, Trade(o) \/ Cancel(o) \/ submit_order(o)
    PROVE  TypeOK'
<1>1. AccountOf(o) \in Accounts
  BY OwnersAccount
<1>2. "trade" \in Kinds /\ "cancel" \in Kinds /\ "accepted" \in Kinds /\ 0 \in Nat
  BY DEF Kinds
<1>3. CASE Trade(o)
  <2>1. broker[o].traded + 1 \in Nat
    BY DEF TypeOK
  <2>2. gateway' \in [Accounts -> Session]
    BY <1>1, <1>2, <1>3, <2>1, ReportTypes DEF Trade
  <2> QED
    BY <1>3, <2>1, <2>2 DEF Trade, TypeOK
<1>4. CASE Cancel(o)
  <2>1. gateway' \in [Accounts -> Session]
    BY <1>1, <1>2, <1>4, ReportTypes DEF Cancel
  <2> QED
    BY <1>4, <2>1 DEF Cancel, TypeOK
<1>5. CASE submit_order(o)
  <2>1. gateway' \in [Accounts -> Session]
    BY <1>1, <1>2, <1>5, ReportTypes DEF submit_order
  <2>2. live' \in Process
    <3>1. PICK memory : memory = [live.memory EXCEPT !.orders = @ \union {o}]
      OBVIOUS
    <3>2. memory \in Memory
      BY <3>1 DEF TypeOK, Process, Memory
    <3>3. live' = [live EXCEPT !.memory = memory]
      BY <1>5, <3>1 DEF submit_order, TypeOK, Process
    <3> QED
      BY <3>2, <3>3 DEF TypeOK, Process
  <2> QED
    BY <1>5, <2>1, <2>2 DEF submit_order, TypeOK
<1> QED
  BY <1>3, <1>4, <1>5

LEMMA OnRtnTypes ==
    ASSUME TypeOK, NEW a \in Accounts, OnRtn(a) \/ Drop(a)
    PROVE  TypeOK'
<1>0. gateway[a] \in Session /\ gateway \in [Accounts -> Session]
  BY DEF TypeOK
<1>1. CASE OnRtn(a)
  <2>1. PICK report \in OnItsWay : report = Head(gateway[a].reports)
    <3>1. gateway[a].reports \in Seq(OnItsWay) /\ gateway[a].reports # <<>>
      BY <1>0, <1>1 DEF OnRtn, Session
    <3> QED
      BY <3>1
  <2>2. PICK filled \in Nat \ {0} : filled = refs[report.order].filled + 1
    BY <2>1 DEF OnItsWay, TypeOK
  <2>3. PICK over \in BOOLEAN :
            over = (report.kind = "cancel" \/ (report.kind = "trade" /\ filled >= Volume[report.order]))
    OBVIOUS
  <2>4. PICK event : event = [kind |-> report.kind, order |-> report.order, trade |-> report.trade,
                              filled |-> filled, last |-> over, bound |-> refs[report.order].bound]
    OBVIOUS
  <2>5. event \in Event
    BY <2>1, <2>4 DEF OnItsWay, Event, TypeOK
  <2>6. /\ gateway' = [gateway EXCEPT ![a].reports = Tail(@), ![a].events = Append(@, event)]
        /\ refs' = [refs EXCEPT ![report.order] = IF over THEN NoRef
                                                  ELSE IF report.kind = "trade"
                                                  THEN [@ EXCEPT !.filled = filled] ELSE @]
    BY <1>1, <2>1, <2>2, <2>3, <2>4 DEF OnRtn
  <2>7. [gateway[a] EXCEPT !.reports = Tail(@), !.events = Append(@, event)] \in Session
    <3>1. gateway[a].reports \in Seq(OnItsWay) /\ gateway[a].reports # <<>>
      BY <1>0, <1>1 DEF OnRtn, Session
    <3>2. Tail(gateway[a].reports) \in Seq(OnItsWay)
      BY <3>1
    <3>3. PICK r, e : r = Tail(gateway[a].reports) /\ e = Append(gateway[a].events, event)
      OBVIOUS
    <3>4. r \in Seq(OnItsWay) /\ e \in Seq(Event)
      BY <1>0, <2>5, <3>2, <3>3 DEF Session
    <3>5. [gateway[a] EXCEPT !.reports = r, !.events = e] \in Session
      BY <1>0, <3>4 DEF Session
    <3> QED
      BY <1>0, <3>3, <3>5 DEF Session
  <2>8. gateway' \in [Accounts -> Session]
    BY <1>0, <2>6, <2>7
  <2>9. refs' \in [Orders -> [bound : BOOLEAN, filled : Nat]]
    <3>1. refs[report.order] \in [bound : BOOLEAN, filled : Nat] /\ report.order \in Orders
      BY <2>1 DEF TypeOK, OnItsWay
    <3>2. NoRef \in [bound : BOOLEAN, filled : Nat]
      BY DEF NoRef
    <3>3. [refs[report.order] EXCEPT !.filled = filled] \in [bound : BOOLEAN, filled : Nat]
      BY <3>1
    <3> QED
      BY <2>6, <3>1, <3>2, <3>3 DEF TypeOK
  <2> QED
    BY <1>1, <2>8, <2>9 DEF OnRtn, TypeOK
<1>2. CASE Drop(a)
  <2>1. <<>> \in Seq(OnItsWay)
    OBVIOUS
  <2>2. [gateway[a] EXCEPT !.ready = FALSE, !.reports = <<>>] \in Session
    BY <1>0, <2>1 DEF Session
  <2>3. gateway' = [gateway EXCEPT ![a] = [gateway[a] EXCEPT !.ready = FALSE, !.reports = <<>>]]
    BY <1>0, <1>2 DEF Drop, Session
  <2>4. gateway' \in [Accounts -> Session]
    BY <1>0, <2>2, <2>3
  <2> QED
    BY <1>2, <2>4 DEF Drop, TypeOK
<1> QED
  BY <1>1, <1>2

LEMMA NothingTypes ==
    ASSUME TRUE
    PROVE  /\ NoProcess \in Process /\ NoSession \in Session
           /\ NoRef \in [bound : BOOLEAN, filled : Nat]
           /\ NoInventory \in Inventory /\ NoMemory \in Memory
<1>1. NoInventory \in Inventory /\ NoMemory \in Memory
  BY DEF NoInventory, NoLots, NoMemory, Inventory, Memory
<1>2. NoProcess \in Process
  BY <1>1 DEF NoProcess, Process, Places
<1>3. <<>> \in Seq(OnItsWay) /\ <<>> \in Seq(Event)
  OBVIOUS
<1>4. NoSession \in Session
  BY <1>3 DEF NoSession, Session
<1> QED
  BY <1>1, <1>2, <1>4 DEF NoRef

LEMMA ShutdownTypes ==
    ASSUME Shutdown
    PROVE  /\ gateway' \in [Accounts -> Session]
           /\ refs' \in [Orders -> [bound : BOOLEAN, filled : Nat]]
  BY NothingTypes DEF Shutdown

LEMMA StartTypes ==
    ASSUME TypeOK, Start
    PROVE  TypeOK'
<1>1. [NoSession EXCEPT !.ready = TRUE] \in Session
  BY NothingTypes DEF Session
<1>2. gateway' \in [Accounts -> Session]
  BY <1>1 DEF Start
<1>3. live' \in Process
  BY NothingTypes DEF Start, Process, Places, TypeOK, seed_live_closed_order_history_from_telemetry
<1> QED
  BY <1>2, <1>3 DEF Start, TypeOK

LEMMA AdjustedTypes ==
    ASSUME NEW store \in Inventory
    PROVE  apply_manual_inventory_adjustments(store) \in Inventory
<1>1. PICK lots : lots = [store.lots EXCEPT ![Manual] = @ + 1]
  OBVIOUS
<1>2. lots \in [Keys -> Nat]
  BY <1>1 DEF Inventory, Keys
<1>3. [store EXCEPT !.lots = lots, !.adjusted = TRUE] \in Inventory
  BY <1>2 DEF Inventory
<1>4. [store EXCEPT !.lots[Manual] = @ + 1, !.adjusted = TRUE] = [store EXCEPT !.lots = lots, !.adjusted = TRUE]
  BY <1>1 DEF Inventory
<1> QED
  BY <1>3, <1>4 DEF apply_manual_inventory_adjustments

LEMMA ReadStoresTypes ==
    ASSUME TypeOK, ReadStores
    PROVE  TypeOK'
<1>1. PICK store \in Inventory : store = apply_manual_inventory_adjustments(files.inventory)
  BY AdjustedTypes DEF TypeOK
<1>2. seed_attachment_telemetry_from_inventory_store(store) \in [Strategies -> Nat]
  BY DEF seed_attachment_telemetry_from_inventory_store, Inventory, Keys
<1>3. PICK attached, recorded :
          /\ attached = seed_attachment_telemetry_from_inventory_store(store)
          /\ recorded = {t \in Trades : Known(store.fills \union live.closed, t)}
  OBVIOUS
<1>4. files.state \in Memory /\ files.state.orders \in SUBSET Orders
  BY DEF TypeOK, Memory
<1>5. live' = [live EXCEPT !.pc = "positions", !.todo = Accounts, !.inventory = store,
                  !.bindings = files.state.orders, !.memory = files.state,
                  !.attached = attached, !.recorded = recorded]
  BY <1>1, <1>3 DEF ReadStores
<1>6. recorded \in SUBSET Trades
  BY <1>3
<1>7. live' \in Process
  BY <1>2, <1>3, <1>4, <1>5, <1>6 DEF Process, Places, TypeOK
<1> QED
  BY <1>7 DEF ReadStores, TypeOK

\* The account a query is made for is one of those left.
LEMMA NextAccountIsLeft ==
    ASSUME live.todo # {}
    PROVE  NextAccount \in live.todo
  BY DEF NextAccount

LEMMA FailTypes ==
    ASSUME TypeOK, NEW next \in Process, Fail(next)
    PROVE  /\ live' \in Process /\ gateway' \in [Accounts -> Session]
           /\ refs' \in [Orders -> [bound : BOOLEAN, filled : Nat]]
<1>1. live.starting \in BOOLEAN
  BY DEF TypeOK, Process
<1>2. CASE live.starting
  BY <1>2, NothingTypes, ShutdownTypes DEF Fail
<1>3. CASE ~live.starting
  <2>1. PICK enabled : enabled = [a \in Accounts |-> FALSE]
    OBVIOUS
  <2>2. live' = [next EXCEPT !.pc = "ticks", !.todo = {}, !.enabled = enabled]
    BY <1>3, <2>1 DEF Fail
  <2>3. enabled \in [Accounts -> BOOLEAN]
    BY <2>1
  <2>4. live' \in Process
    BY <2>2, <2>3 DEF Process, Places
  <2> QED
    BY <1>3, <2>4 DEF Fail, TypeOK, sessionVars
<1> QED
  BY <1>1, <1>2, <1>3

\* What a position query makes of the process: no answer, books that agree, a
\* single strategy that takes what the account holds, or a difference.
Unanswered(a) ==
    live' = [live EXCEPT !.todo = @ \ {a}, !.books = [@ EXCEPT ![a] = IF live.books[a] = "differ"
                                                         THEN "doubtful" ELSE live.books[a]]]

Agreed(a, attached) ==
    live' = [live EXCEPT !.lots = [live.lots EXCEPT ![a] = BrokerLots(a)],
                !.books = [live.books EXCEPT ![a] = "agree"],
                !.todo = @ \ {a}, !.attached = attached]

Differing(a) ==
    [live EXCEPT !.lots = [live.lots EXCEPT ![a] = BrokerLots(a)],
                 !.books = [live.books EXCEPT ![a] = "differ"]]

Taken(a) == [s \in Strategies |-> IF s \in StrategiesOf(a) THEN BrokerLots(a) ELSE live.attached[s]]

LEMMA HydrateEffect ==
    ASSUME TypeOK, hydrate_live_positions_from_broker, NEW a, a = NextAccount
    PROVE  /\ live.pc = "positions" /\ a \in live.todo /\ UNCHANGED <<config, broker, files>>
           /\ \/ Unanswered(a) /\ UNCHANGED sessionVars
              \/ /\ Agreed(a, live.attached) /\ UNCHANGED sessionVars
                 /\ Lots(live.inventory.lots, KeysOf(a)) = BrokerLots(a)
              \/ /\ Agreed(a, Taken(a)) /\ UNCHANGED sessionVars
                 /\ Lots(live.inventory.lots, KeysOf(a)) = 0
                 /\ Cardinality(StrategiesOf(a)) = 1
              \/ Fail(Differing(a))
<1>1. a \in live.todo /\ a \in Accounts /\ live.pc = "positions"
  BY NextAccountIsLeft DEF hydrate_live_positions_from_broker, TypeOK, Process
<1>2. PICK held, persisted, only :
          held = BrokerLots(a) /\ persisted = Lots(live.inventory.lots, KeysOf(a))
          /\ only = StrategiesOf(a)
  OBVIOUS
<1>3. PICK next : next = [live EXCEPT !.lots[a] = held, !.books[a] = "differ"]
  OBVIOUS
<1>4. PICK done : done = [next EXCEPT !.books[a] = "agree", !.todo = @ \ {a}]
  OBVIOUS
<1>5. next = Differing(a)
  BY <1>1, <1>2, <1>3 DEF Differing, TypeOK, Process
<1>6. PICK lots, books : lots = [live.lots EXCEPT ![a] = BrokerLots(a)]
                         /\ books = [live.books EXCEPT ![a] = "agree"]
  OBVIOUS
<1>12. done = [live EXCEPT !.lots = lots, !.books = books, !.todo = @ \ {a}]
  <2>1. next = [live EXCEPT !.lots = lots, !.books = [live.books EXCEPT ![a] = "differ"]]
    BY <1>5, <1>6 DEF Differing
  <2>2. next.books = [live.books EXCEPT ![a] = "differ"] /\ next.todo = live.todo
    BY <2>1 DEF TypeOK, Process
  <2>3. [next.books EXCEPT ![a] = "agree"] = books
    BY <1>1, <1>6, <2>2 DEF TypeOK, Process
  <2>4. done = [next EXCEPT !.books = books, !.todo = live.todo \ {a}]
    BY <1>1, <1>4, <2>1, <2>2, <2>3 DEF TypeOK, Process
  <2> QED
    BY <2>1, <2>4 DEF TypeOK, Process
<1>7. /\ UNCHANGED <<config, broker, files>>
      /\ \/ /\ live' = [live EXCEPT !.todo = @ \ {a},
                                    !.books[a] = IF @ = "differ" THEN "doubtful" ELSE @]
            /\ UNCHANGED sessionVars
         \/ persisted = held /\ live' = done /\ UNCHANGED sessionVars
         \/ /\ persisted = 0 /\ Cardinality(only) = 1
            /\ live' = [done EXCEPT !.attached =
                            [s \in Strategies |-> IF s \in only THEN held ELSE @[s]]]
            /\ UNCHANGED sessionVars
         \/ Fail(next)
  BY <1>2, <1>3, <1>4 DEF hydrate_live_positions_from_broker
<1>8. ASSUME live' = done PROVE Agreed(a, live.attached)
  BY <1>6, <1>12, <1>8 DEF Agreed, TypeOK, Process
<1>9. ASSUME live' = [done EXCEPT !.attached =
                            [s \in Strategies |-> IF s \in only THEN held ELSE @[s]]]
      PROVE Agreed(a, Taken(a))
  <2>1. [s \in Strategies |-> IF s \in only THEN held ELSE live.attached[s]] = Taken(a)
    BY <1>2 DEF Taken
  <2>2. PICK attached : attached = Taken(a)
    OBVIOUS
  <2>3. live' = [done EXCEPT !.attached = attached]
    BY <1>12, <1>9, <2>1, <2>2 DEF TypeOK, Process
  <2> QED
    BY <1>6, <1>12, <2>2, <2>3 DEF Agreed, TypeOK, Process
<1>10. ASSUME live' = [live EXCEPT !.todo = @ \ {a},
                                    !.books[a] = IF @ = "differ" THEN "doubtful" ELSE @]
       PROVE Unanswered(a)
  BY <1>1, <1>10 DEF Unanswered, TypeOK, Process
<1> QED
  BY <1>1, <1>2, <1>5, <1>7, <1>8, <1>9, <1>10

LEMMA HydrateTypes ==
    ASSUME TypeOK, hydrate_live_positions_from_broker
    PROVE  TypeOK'
<1>1. PICK a : a = NextAccount
  OBVIOUS
<1>2. live \in Process /\ a \in live.todo /\ a \in Accounts /\ UNCHANGED <<config, broker, files>>
  BY <1>1, HydrateEffect DEF TypeOK, Process
<1>3. PICK held \in Nat : held = BrokerLots(a)
  BY BrokerLotsType
<1>4. PICK lots : lots = [live.lots EXCEPT ![a] = BrokerLots(a)]
  OBVIOUS
<1>5. lots \in [Accounts -> Nat]
  BY <1>2, <1>3, <1>4 DEF Process
<1>6. \A b \in {"agree", "differ"} :
          [live.books EXCEPT ![a] = b] \in [Accounts -> {"unread", "agree", "differ", "doubtful"}]
  BY <1>2 DEF Process
<1>7. ASSUME UNCHANGED sessionVars, live' \in Process PROVE TypeOK'
  BY <1>2, <1>7 DEF TypeOK, sessionVars
<1>8. CASE Unanswered(a) /\ UNCHANGED sessionVars
  <2>1. PICK books : books = [live.books EXCEPT ![a] = IF live.books[a] = "differ"
                                                         THEN "doubtful" ELSE live.books[a]]
    OBVIOUS
  <2>2. books \in [Accounts -> {"unread", "agree", "differ", "doubtful"}]
    BY <1>2, <2>1 DEF Process
  <2>3. live' = [live EXCEPT !.todo = live.todo \ {a}, !.books = books]
    BY <1>2, <1>8, <2>1 DEF Unanswered, Process
  <2>4. live' \in Process
    BY <1>2, <2>2, <2>3 DEF Process
  <2> QED
    BY <1>7, <1>8, <2>4
<1>9. ASSUME NEW attached \in [Strategies -> Nat], Agreed(a, attached), UNCHANGED sessionVars
      PROVE  TypeOK'
  <2>1. PICK books : books = [live.books EXCEPT ![a] = "agree"]
    OBVIOUS
  <2>2. live' = [live EXCEPT !.lots = lots, !.books = books, !.todo = live.todo \ {a},
                             !.attached = attached]
    BY <1>2, <1>4, <1>9, <2>1 DEF Agreed, Process
  <2>3. live' \in Process
    BY <1>2, <1>5, <1>6, <2>1, <2>2 DEF Process
  <2> QED
    BY <1>7, <1>9, <2>3
<1>10. live.attached \in [Strategies -> Nat] /\ Taken(a) \in [Strategies -> Nat]
  BY <1>2, <1>3 DEF Process, Taken
<1>11. Differing(a) \in Process
  <2>1. PICK books : books = [live.books EXCEPT ![a] = "differ"]
    OBVIOUS
  <2>2. Differing(a) = [live EXCEPT !.lots = lots, !.books = books]
    BY <1>4, <2>1 DEF Differing
  <2> QED
    BY <1>2, <1>5, <1>6, <2>1, <2>2 DEF Process
<1>12. CASE Fail(Differing(a))
  BY <1>2, <1>11, <1>12, FailTypes DEF TypeOK
<1>13. \/ Unanswered(a) /\ UNCHANGED sessionVars
       \/ Agreed(a, live.attached) /\ UNCHANGED sessionVars
       \/ Agreed(a, Taken(a)) /\ UNCHANGED sessionVars
       \/ Fail(Differing(a))
  BY <1>1, HydrateEffect
<1> QED
  BY <1>8, <1>9, <1>10, <1>12, <1>13

\* The other queries.  None of them changes the books.
LEMMA QueryTypes ==
    ASSUME TypeOK, query_working_orders
    PROVE  TypeOK'
<1>1. PICK a : a = NextAccount
  OBVIOUS
<1>2. PICK answer : answer = {[order |-> o, traded |-> broker[o].traded, bound |-> refs[o].bound] :
                                   o \in {p \in OrdersOf(a) : broker[p].state = "working"}}
  OBVIOUS
<1>3. answer \subseteq [order : Orders, traded : Nat, bound : BOOLEAN]
  BY <1>2 DEF OrdersOf, TypeOK
<1>4. \/ live' = [live EXCEPT !.todo = live.todo \ {a}]
      \/ live' = [live EXCEPT !.pc = "seed", !.todo = live.todo \ {a},
                    !.opened = live.opened \ OrdersOf(a), !.answer = answer]
  BY <1>1, <1>2 DEF query_working_orders, TypeOK, Process
<1>5. live' \in Process
  <2>0. live \in Process
    BY DEF TypeOK
  <2>1. CASE live' = [live EXCEPT !.todo = live.todo \ {a}]
    BY <2>0, <2>1 DEF Process
  <2>2. PICK opened \in SUBSET Orders : opened = live.opened \ OrdersOf(a)
    BY <2>0 DEF Process
  <2>3. CASE live' = [live EXCEPT !.pc = "seed", !.todo = live.todo \ {a},
                        !.opened = live.opened \ OrdersOf(a), !.answer = answer]
    <3>1. live' = [live EXCEPT !.pc = "seed", !.todo = live.todo \ {a},
                     !.opened = opened, !.answer = answer]
      BY <2>2, <2>3
    <3> QED
      BY <1>3, <2>0, <3>1 DEF Process, Places
  <2> QED
    BY <1>4, <2>1, <2>3
<1> QED
  BY <1>5 DEF query_working_orders, TypeOK

LEMMA SeedTypes ==
    ASSUME TypeOK, hydrate_live_working_orders_from_broker
    PROVE  TypeOK'
<1>1. PICK found : found = {r \in live.answer :
                               r.bound \/ r.order \in build_recovered_working_order_lookup}
  OBVIOUS
<1>2. found \subseteq [order : Orders, traded : Nat, bound : BOOLEAN]
  BY <1>1 DEF TypeOK, Process
<1>3. refs' \in [Orders -> [bound : BOOLEAN, filled : Nat]]
  <2> SUFFICES ASSUME NEW o \in Orders, \E r \in found : r.order = o
               PROVE  (CHOOSE r \in found : r.order = o).traded \in Nat
    BY <1>1 DEF hydrate_live_working_orders_from_broker, seed_recovered_order_mapping, TypeOK
  <2> QED
    BY <1>2
<1>4. PICK opened : opened = live.opened \union {r.order : r \in live.answer}
  OBVIOUS
<1>5. opened \subseteq Orders
  BY <1>4 DEF TypeOK, Process
<1>6. live' = [live EXCEPT !.pc = "orders", !.answer = {}, !.opened = opened]
  BY <1>4 DEF hydrate_live_working_orders_from_broker, TypeOK, Process
<1>7. live' \in Process
  BY <1>5, <1>6 DEF TypeOK, Process, Places
<1> QED
  BY <1>3, <1>7 DEF hydrate_live_working_orders_from_broker, TypeOK

\* The trades the broker lists and the process does not know.
Missed(a) ==
    {t \in Trades : /\ t[1] \in OrdersOf(a) /\ t[2] <= broker[t[1]].traded
                    /\ ~Known(live.inventory.fills \union live.closed, t)}

LEMMA RecoverEffect ==
    ASSUME TypeOK, recover_live_trades_from_broker, NEW a, a = NextAccount
    PROVE  /\ UNCHANGED <<config, broker, gateway, refs, files>> /\ live.pc = "trades"
           /\ \/ live' = [live EXCEPT !.todo = live.todo \ {a}, !.failed = TRUE]
              \/ live' = [live EXCEPT !.todo = live.todo \ {a},
                            !.recovered = live.recovered \union Missed(a),
                            !.closed = live.closed \union {Fill(t[1], t[2], 1) : t \in Missed(a)}]
  BY DEF recover_live_trades_from_broker, Missed, TypeOK, Process

LEMMA RecoverTypes ==
    ASSUME TypeOK, recover_live_trades_from_broker
    PROVE  TypeOK'
<1>1. PICK a : a = NextAccount
  OBVIOUS
<1>2. Missed(a) \subseteq Trades /\ {Fill(t[1], t[2], 1) : t \in Missed(a)} \subseteq Record
  BY TradesType DEF Missed, Fill, Record
<1>3. live' \in Process
  <2>1. PICK missed, fills : missed = Missed(a) /\ fills = {Fill(t[1], t[2], 1) : t \in Missed(a)}
    OBVIOUS
  <2>2. \/ live' = [live EXCEPT !.todo = live.todo \ {a}, !.failed = TRUE]
        \/ live' = [live EXCEPT !.todo = live.todo \ {a},
                        !.recovered = live.recovered \union missed,
                        !.closed = live.closed \union fills]
    BY <1>1, <2>1, RecoverEffect
  <2>3. live \in Process /\ missed \subseteq Trades /\ fills \subseteq Record
    BY <1>2, <2>1 DEF TypeOK
  <2>4. CASE live' = [live EXCEPT !.todo = live.todo \ {a}, !.failed = TRUE]
    BY <2>3, <2>4 DEF Process
  <2>5. CASE live' = [live EXCEPT !.todo = live.todo \ {a},
                        !.recovered = live.recovered \union missed,
                        !.closed = live.closed \union fills]
    BY <2>3, <2>5 DEF Process
  <2> QED
    BY <2>2, <2>4, <2>5
<1> QED
  BY <1>1, <1>3, RecoverEffect DEF TypeOK

\* The replay counts what it replays and tells the strategies of it.
LEMMA ReplayEffect ==
    ASSUME TypeOK, replay_recovered_live_trades_to_strategies
    PROVE  \E place \in {"telemetry", "ticks"}, memory \in Memory, replays \in [Trades -> Nat] :
             /\ replays = [t \in Trades |-> IF t \in live.recovered THEN live.replays[t] + 1
                                            ELSE live.replays[t]]
             /\ live' = [live EXCEPT !.pc = place, !.starting = FALSE, !.recovered = {},
                                     !.memory = memory, !.replays = replays]
<1>0. live \in Process
  BY DEF TypeOK
<1>1. PICK place \in {"telemetry", "ticks"} :
          place = IF live.starting THEN "telemetry" ELSE "ticks"
  OBVIOUS
<1>2. PICK memory : memory = Told(live.memory, live.recovered)
  OBVIOUS
<1>3. PICK replays : replays = [t \in Trades |-> IF t \in live.recovered THEN live.replays[t] + 1
                                                 ELSE live.replays[t]]
  OBVIOUS
<1>4. memory \in Memory
  BY <1>0, <1>2 DEF Told, Process, Memory
<1>5. replays \in [Trades -> Nat]
  BY <1>0, <1>3 DEF Process
<1>6. live' = [live EXCEPT !.pc = place, !.starting = FALSE, !.recovered = {},
                           !.memory = memory, !.replays = replays]
  BY <1>0, <1>1, <1>2, <1>3 DEF replay_recovered_live_trades_to_strategies, Process
<1> QED
  BY <1>3, <1>4, <1>5, <1>6

LEMMA ReplayTypes ==
    ASSUME TypeOK, NextQuery \/ replay_recovered_live_trades_to_strategies
    PROVE  TypeOK'
<1>0. live \in Process
  BY DEF TypeOK
<1>1. CASE NextQuery
  <2>1. \/ live' = [live EXCEPT !.pc = "orders", !.todo = Accounts]
        \/ live' = [live EXCEPT !.pc = "trades", !.todo = Accounts]
    BY <1>1 DEF NextQuery
  <2>2. live' \in Process
    <3>1. CASE live' = [live EXCEPT !.pc = "orders", !.todo = Accounts]
      BY <1>0, <3>1 DEF Process, Places
    <3>2. CASE live' = [live EXCEPT !.pc = "trades", !.todo = Accounts]
      BY <1>0, <3>2 DEF Process, Places
    <3> QED
      BY <2>1, <3>1, <3>2
  <2> QED
    BY <1>1, <2>2 DEF NextQuery, TypeOK
<1>2. CASE replay_recovered_live_trades_to_strategies
  <2>1. PICK place \in {"telemetry", "ticks"}, memory \in Memory, replays \in [Trades -> Nat] :
            live' = [live EXCEPT !.pc = place, !.starting = FALSE, !.recovered = {},
                                 !.memory = memory, !.replays = replays]
    BY <1>2, ReplayEffect
  <2>2. live' \in Process
    BY <1>0, <2>1 DEF Process, Places
  <2> QED
    BY <1>2, <2>2 DEF replay_recovered_live_trades_to_strategies, TypeOK
<1> QED
  BY <1>1, <1>2

\* A reconnect: nothing came back, and what is lost is paused, or the books are
\* read again.
Reconnected(enabled) ==
    \/ /\ live' = [live EXCEPT !.pc = "ticks", !.todo = {}, !.enabled = enabled]
       /\ \A a \in Accounts : enabled[a] => live.enabled[a]
       /\ UNCHANGED gateway
    \/ live' = [live EXCEPT !.pc = "positions", !.todo = Accounts, !.enabled = enabled]

LEMMA EnsureReadyEffect ==
    ASSUME TypeOK, ensure_ready
    PROVE  /\ live.pc = "top" /\ UNCHANGED <<config, broker, refs, files, faults>>
           /\ gateway' \in [Accounts -> Session]
           /\ \E enabled \in [Accounts -> BOOLEAN] : Reconnected(enabled)
<1> DEFINE lost == {a \in Accounts : ~gateway[a].ready}
<1>1. PICK back \in SUBSET lost :
             /\ gateway' = [a \in Accounts |-> IF a \in back
                               THEN [NoSession EXCEPT !.ready = TRUE] ELSE gateway[a]]
             /\ live' = [live EXCEPT
                    !.pc = IF back = {} THEN "ticks" ELSE "positions",
                    !.todo = IF back = {} THEN {} ELSE Accounts,
                    !.enabled = [a \in Accounts |-> IF a \in lost THEN a \in back
                                                    ELSE live.enabled[a]]]
  BY DEF ensure_ready
<1> HIDE DEF lost
<1>2. PICK enabled : enabled = [a \in Accounts |-> IF a \in lost THEN a \in back ELSE live.enabled[a]]
  OBVIOUS
<1>3. live.enabled \in [Accounts -> BOOLEAN]
  BY DEF TypeOK, Process
<1>4. enabled \in [Accounts -> BOOLEAN]
  <2>1. ASSUME NEW a \in Accounts PROVE enabled[a] \in BOOLEAN
    <3>1. CASE a \in lost /\ a \in back
      <4>1. enabled[a] = TRUE
        BY <1>2, <3>1, Zenon
      <4> QED
        BY <4>1
    <3>2. CASE a \in lost /\ a \notin back
      <4>1. enabled[a] = (a \in back)
        BY <1>2, <3>2, Zenon
      <4>2. (a \in back) = FALSE
        BY <3>2
      <4> QED
        BY <4>1, <4>2
    <3>3. CASE a \notin lost
      <4>1. enabled[a] = live.enabled[a]
        BY <1>2, <3>3, Zenon
      <4> QED
        BY <1>3, <4>1
    <3> QED
      BY <3>1, <3>2, <3>3
  <2>2. enabled = [a \in Accounts |-> enabled[a]]
    BY <1>2, Zenon
  <2> QED
    BY <2>1, <2>2
<1>5. Reconnected(enabled)
  <2>1. CASE back = {}
    <3>1. gateway' = gateway
      BY <1>1, <2>1 DEF TypeOK
    <3> QED
      BY <1>1, <1>2, <2>1, <3>1 DEF Reconnected
  <2>2. CASE back # {}
    BY <1>1, <1>2, <2>2 DEF Reconnected
  <2> QED
    BY <2>1, <2>2
<1>6. [NoSession EXCEPT !.ready = TRUE] \in Session
  BY NothingTypes DEF Session
<1>7. gateway' \in [Accounts -> Session]
  BY <1>1, <1>6 DEF TypeOK
<1>8. live.pc = "top" /\ UNCHANGED <<config, broker, refs, files, faults>>
  BY DEF ensure_ready
<1> QED
  BY <1>4, <1>5, <1>7, <1>8

LEMMA EnsureReadyTypes ==
    ASSUME TypeOK, ensure_ready
    PROVE  TypeOK'
<1>1. PICK enabled \in [Accounts -> BOOLEAN] : Reconnected(enabled)
  BY EnsureReadyEffect
<1>2. live' \in Process
  <2>0. live \in Process
    BY DEF TypeOK
  <2>1. CASE live' = [live EXCEPT !.pc = "ticks", !.todo = {}, !.enabled = enabled]
    BY <2>0, <2>1 DEF Process, Places
  <2>2. CASE live' = [live EXCEPT !.pc = "positions", !.todo = Accounts, !.enabled = enabled]
    BY <2>0, <2>2 DEF Process, Places
  <2> QED
    BY <1>1, <2>1, <2>2 DEF Reconnected
<1> QED
  BY <1>2, EnsureReadyEffect DEF TypeOK

LEMMA DrainEffect ==
    ASSUME TypeOK, BooksAgree(live), drain_order_events
    PROVE  /\ live.pc = "ticks" /\ UNCHANGED <<config, broker, refs, files, faults>>
           /\ \E p \in DrainedFrom(live) : live' = [p EXCEPT !.pc = "telemetry"]
  BY QueuesKeep DEF drain_order_events, Drained

LEMMA DrainTypes ==
    ASSUME TypeOK, BooksAgree(live), drain_order_events
    PROVE  TypeOK'
<1>1. live' \in Process
  BY DrainEffect DEF DrainedFrom, Process, Places
<1>2. \A a \in Accounts : [gateway[a] EXCEPT !.events = <<>>] \in Session
  <2>1. <<>> \in Seq(Event)
    OBVIOUS
  <2> QED
    BY <2>1 DEF TypeOK, Session
<1>3. gateway' \in [Accounts -> Session]
  BY <1>2 DEF drain_order_events
<1> QED
  BY <1>1, <1>3 DEF drain_order_events, TypeOK

\* What the inventory store says after it was brought up to the attachments.
LEMMA SyncedStore ==
    ASSUME TypeOK
    PROVE  /\ sync_inventory_store_from_live_attachments \in Inventory
           /\ sync_inventory_store_from_live_attachments =
                  [live.inventory EXCEPT !.lots = Held(live.attached, live.inventory.lots)]
<1>1. live.inventory \in Inventory /\ live.attached \in [Strategies -> Nat]
  BY DEF TypeOK, Process
<1>2. Held(live.attached, live.inventory.lots) \in [Keys -> Nat]
  BY <1>1 DEF Held, Inventory
<1>3. sync_inventory_store_from_live_attachments =
                  [live.inventory EXCEPT !.lots = Held(live.attached, live.inventory.lots)]
  BY DEF sync_inventory_store_from_live_attachments
<1> QED
  BY <1>1, <1>2, <1>3 DEF Inventory

LEMMA WriteTypes ==
    ASSUME TypeOK,
           \/ write_live_telemetry_file \/ write_strategy_inventory_store
           \/ write_strategy_state_store
    PROVE  TypeOK'
<1>0. live \in Process
  BY DEF TypeOK
<1>1. CASE write_live_telemetry_file
  <2>1. live' \in Process
    BY <1>0, <1>1 DEF write_live_telemetry_file, Process, Places
  <2>2. live.closed \in SUBSET Record
    BY <1>0 DEF Process
  <2> QED
    BY <1>1, <2>1, <2>2 DEF write_live_telemetry_file, TypeOK
<1>2. CASE write_strategy_inventory_store
  <2>1. PICK store \in Inventory : store = sync_inventory_store_from_live_attachments
    BY SyncedStore
  <2>2. live' = [live EXCEPT !.pc = "state", !.inventory = store]
        /\ files' = [files EXCEPT !.inventory = [store EXCEPT !.fills = live.closed]]
        /\ UNCHANGED <<config, broker, gateway, refs, faults>>
    BY <1>2, <2>1 DEF write_strategy_inventory_store
  <2>3. [store EXCEPT !.fills = live.closed] \in Inventory
    BY <1>0 DEF Process, Inventory
  <2>4. live' \in Process
    BY <1>0, <2>2 DEF Process, Places
  <2> QED
    BY <2>2, <2>3, <2>4 DEF TypeOK
<1>3. CASE write_strategy_state_store
  <2>1. live' \in Process
    BY <1>0, <1>3 DEF write_strategy_state_store, Process, Places
  <2>2. live.memory \in Memory
    BY <1>0 DEF Process
  <2> QED
    BY <1>3, <2>1, <2>2 DEF write_strategy_state_store, TypeOK
<1> QED
  BY <1>1, <1>2, <1>3

LEMMA CrashTypes ==
    ASSUME TypeOK, Crash
    PROVE  TypeOK'
<1>1. /\ live' \in Process /\ gateway' \in [Accounts -> Session]
      /\ refs' \in [Orders -> [bound : BOOLEAN, filled : Nat]]
  BY NothingTypes, ShutdownTypes DEF Crash
<1>2. files' \in [telemetry : SUBSET Record, inventory : Inventory, state : Memory]
  BY NothingTypes DEF Crash, TypeOK
<1> QED
  BY <1>1, <1>2 DEF Crash, TypeOK

-----------------------------------------------------------------------------
(* The books.                                                              *)

\* An account whose last answer did not agree is paused, until a reconnect
\* has it asked again.
DifferingArePaused ==
    \A a \in Accounts : live.books[a] = "differ" =>
        ~live.enabled[a] \/ (live.pc = "positions" /\ a \in live.todo)

\* Nothing agrees before a first query; what is in the store is what the
\* strategies are attached to when the positions are compared with the store.
InventoryIsRead ==
    /\ live.pc \in {"down", "waiting"} => \A a \in Accounts : live.books[a] = "unread"
    /\ live.pc \in {"state", "top"} =>
           \A s \in Strategies : live.attached[s] = live.inventory.lots[s]
    /\ live.pc = "positions" => \A a \in live.todo : \A s \in StrategiesOf(a) :
           live.attached[s] = live.inventory.lots[s]

BooksInv == TypeOK /\ BooksAgree(live) /\ DifferingArePaused /\ InventoryIsRead

LEMMA InitBooks == Init => BooksInv
<1> SUFFICES ASSUME Init PROVE BooksInv
  OBVIOUS
<1>1. TypeOK
  BY NothingTypes DEF Init, TypeOK, NoMemory, Memory
<1>2. live.pc = "down" /\ \A a \in Accounts : live.books[a] = "unread"
  BY DEF Init, NoProcess
<1> QED
  BY <1>1, <1>2 DEF BooksInv, BooksAgree, DifferingArePaused, InventoryIsRead

\* A process that is not running, or was just started, has read nothing.
LEMMA NothingRead ==
    ASSUME live'.pc \in {"down", "waiting"}, \A a \in Accounts : live'.books[a] = "unread"
    PROVE  BooksAgree(live)' /\ DifferingArePaused' /\ InventoryIsRead'
  BY DEF BooksAgree, DifferingArePaused, InventoryIsRead

\* A step that leaves the books alone.
LEMMA BooksStay ==
    ASSUME BooksInv, config' = config,
           live'.books = live.books, live'.lots = live.lots, live'.attached = live.attached,
           live'.inventory = live.inventory, live'.enabled = live.enabled,
           live'.pc \notin {"down", "waiting", "positions"} \/ (live'.pc = live.pc /\ live'.todo = live.todo),
           live.pc # "positions" \/ live.todo = {} \/ (live'.pc = live.pc /\ live'.todo = live.todo),
           live'.pc \in {"state", "top"} => live.pc \in {"state", "top"}
    PROVE  BooksAgree(live)' /\ DifferingArePaused' /\ InventoryIsRead'
<1>1. \A a : KeysOf(a)' = KeysOf(a) /\ StrategiesOf(a)' = StrategiesOf(a)
  BY DEF KeysOf, StrategiesOf
<1>2. BooksAgree(live)'
  BY <1>1 DEF BooksInv, BooksAgree
<1>3. DifferingArePaused'
  BY DEF BooksInv, DifferingArePaused
<1>4. InventoryIsRead'
  BY <1>1 DEF BooksInv, InventoryIsRead
<1> QED
  BY <1>2, <1>3, <1>4

LEMMA ReadStoresBooks ==
    ASSUME BooksInv, ReadStores
    PROVE  BooksAgree(live)' /\ DifferingArePaused' /\ InventoryIsRead'
<1>1. PICK store \in Inventory : store = apply_manual_inventory_adjustments(files.inventory)
  BY AdjustedTypes DEF BooksInv, TypeOK
<1>2. PICK recorded : recorded = {t \in Trades : Known(store.fills \union live.closed, t)}
  OBVIOUS
<1>3. PICK attached : attached = [s \in Strategies |-> store.lots[s]]
  OBVIOUS
<1>4. live' = [live EXCEPT !.pc = "positions", !.todo = Accounts, !.inventory = store,
                  !.bindings = files.state.orders, !.memory = files.state,
                  !.attached = attached, !.recorded = recorded]
  BY <1>1, <1>2, <1>3 DEF ReadStores, seed_attachment_telemetry_from_inventory_store
<1>5. /\ live'.pc = "positions" /\ live'.books = live.books
      /\ live'.inventory = store /\ live'.attached = attached
  BY <1>4 DEF BooksInv, TypeOK, Process
<1>6. \A a \in Accounts : live'.books[a] = "unread"
  BY <1>5 DEF BooksInv, InventoryIsRead, ReadStores
<1>7. \A a : StrategiesOf(a)' \subseteq Strategies
  BY DEF StrategiesOf
<1> QED
  BY <1>3, <1>5, <1>6, <1>7 DEF BooksAgree, DifferingArePaused, InventoryIsRead

\* Of two accounts a strategy belongs to one.
LEMMA KeysApart ==
    ASSUME NEW a, NEW b, a # b
    PROVE  StrategiesOf(a) \intersect KeysOf(b) = {}
  BY ManualAssumption DEF StrategiesOf, KeysOf

\* An account whose lots are what the store has for its keys agrees with the
\* attachments too; a single strategy takes what the account holds.
LEMMA AgreedBooks ==
    ASSUME TypeOK, NEW a \in Accounts, NEW attached \in [Strategies -> Nat],
           \A s \in StrategiesOf(a) : live.attached[s] = live.inventory.lots[s],
           \/ /\ attached = live.attached
              /\ Lots(live.inventory.lots, KeysOf(a)) = BrokerLots(a)
           \/ /\ attached = Taken(a)
              /\ Lots(live.inventory.lots, KeysOf(a)) = 0
              /\ Cardinality(StrategiesOf(a)) = 1
    PROVE  Lots(Held(attached, live.inventory.lots), KeysOf(a)) = BrokerLots(a)
<1>1. PICK f \in [Keys -> Nat] : f = live.inventory.lots
  BY DEF TypeOK, Process, Inventory
<1>2. PICK g : g = Held(attached, f)
  OBVIOUS
<1>3. /\ KeysOf(a) \subseteq Keys /\ StrategiesOf(a) \subseteq Strategies
      /\ Strategies \subseteq Keys /\ KeysOf(a) \intersect Strategies = StrategiesOf(a)
  BY ManualAssumption DEF KeysOf, StrategiesOf, Keys
<1>4. CASE /\ attached = live.attached
           /\ Lots(live.inventory.lots, KeysOf(a)) = BrokerLots(a)
  <2>1. \A k \in KeysOf(a) : f[k] \in Int /\ g[k] = f[k]
    BY <1>1, <1>2, <1>3, <1>4 DEF Held
  <2>2. Lots(g, KeysOf(a)) = Lots(f, KeysOf(a))
    BY <2>1, KeysAreFinite, SameSums
  <2> QED
    BY <1>1, <1>2, <1>4, <2>2
<1>5. CASE /\ attached = Taken(a)
           /\ Lots(live.inventory.lots, KeysOf(a)) = 0
           /\ Cardinality(StrategiesOf(a)) = 1
  <2>1. \A k \in KeysOf(a) : f[k] = 0
    <3>1. \A k \in KeysOf(a) : f[k] \in Nat
      BY <1>1, <1>3
    <3> QED
      BY <1>1, <1>5, <3>1, KeysAreFinite, NoneOfNothing
  <2>2. PICK s : StrategiesOf(a) = {s}
    BY <1>5, KeysAreFinite, FS_Singleton
  <2>3. PICK held \in Nat : held = BrokerLots(a)
    BY BrokerLotsType
  <2>4. DifferAt(f, g, KeysOf(a), s, held)
    <3>1. \A k \in KeysOf(a) : f[k] \in Int
      BY <1>1, <1>3
    <3>2. \A k \in KeysOf(a) \ {s} : g[k] = f[k]
      BY <1>2, <1>3, <2>2 DEF Held
    <3>3. g[s] = f[s] + held
      <4>1. s \in KeysOf(a) /\ s \in Strategies /\ s \in Keys
        BY <1>3, <2>2
      <4>2. attached[s] = held
        BY <1>5, <2>2, <2>3, <4>1 DEF Taken
      <4>3. g[s] = held
        BY <1>2, <4>1, <4>2 DEF Held
      <4> QED
        BY <2>1, <2>3, <4>1, <4>3
    <3> QED
      BY <2>3, <3>1, <3>2, <3>3 DEF DifferAt
  <2>5. Lots(g, KeysOf(a)) = Lots(f, KeysOf(a)) + (IF s \in KeysOf(a) THEN held ELSE 0)
    BY <2>4, KeysAreFinite, SumsDiffer
  <2>6. s \in KeysOf(a)
    BY <1>3, <2>2
  <2> QED
    BY <1>1, <1>2, <1>5, <2>3, <2>5, <2>6
<1> QED
  BY <1>4, <1>5

LEMMA HydrateBooks ==
    ASSUME BooksInv, hydrate_live_positions_from_broker
    PROVE  BooksAgree(live)' /\ DifferingArePaused' /\ InventoryIsRead'
<1>1. PICK a : a = NextAccount
  OBVIOUS
<1>2. /\ TypeOK /\ live \in Process /\ live.pc = "positions" /\ a \in live.todo /\ a \in Accounts
      /\ config' = config
  BY <1>1, HydrateEffect DEF BooksInv, TypeOK, Process
<1>3. /\ \A b : KeysOf(b)' = KeysOf(b) /\ StrategiesOf(b)' = StrategiesOf(b)
      /\ \A s \in StrategiesOf(a) : live.attached[s] = live.inventory.lots[s]
  BY <1>2 DEF KeysOf, StrategiesOf, BooksInv, InventoryIsRead
<1>4. CASE Unanswered(a)
  <2>1. PICK books : books = [live.books EXCEPT ![a] = IF live.books[a] = "differ"
                                                         THEN "doubtful" ELSE live.books[a]]
    OBVIOUS
  <2>2. live' = [live EXCEPT !.todo = live.todo \ {a}, !.books = books]
    BY <1>2, <1>4, <2>1 DEF Unanswered, Process
  <2>3. /\ live'.pc = live.pc /\ live'.todo = live.todo \ {a} /\ live'.books = books
        /\ live'.enabled = live.enabled /\ live'.lots = live.lots
        /\ live'.attached = live.attached /\ live'.inventory = live.inventory
    BY <1>2, <2>2 DEF Process
  <2>4. /\ \A b \in Accounts \ {a} : books[b] = live.books[b]
        /\ books[a] # "differ" /\ (books[a] = "agree" => live.books[a] = "agree")
    BY <1>2, <2>1 DEF Process
  <2>5. BooksAgree(live)'
    BY <1>3, <2>3, <2>4 DEF BooksInv, BooksAgree
  <2>6. DifferingArePaused'
    BY <2>3, <2>4 DEF BooksInv, DifferingArePaused
  <2>7. InventoryIsRead'
    BY <1>2, <1>3, <2>3 DEF BooksInv, InventoryIsRead
  <2> QED
    BY <2>5, <2>6, <2>7
<1>5. ASSUME NEW attached \in [Strategies -> Nat], Agreed(a, attached),
             Lots(Held(attached, live.inventory.lots), KeysOf(a)) = BrokerLots(a),
             \A s \in Strategies \ StrategiesOf(a) : attached[s] = live.attached[s]
      PROVE  BooksAgree(live)' /\ DifferingArePaused' /\ InventoryIsRead'
  <2>1. PICK books, lots : books = [live.books EXCEPT ![a] = "agree"]
                           /\ lots = [live.lots EXCEPT ![a] = BrokerLots(a)]
    OBVIOUS
  <2>2. live' = [live EXCEPT !.lots = lots, !.books = books, !.todo = live.todo \ {a},
                             !.attached = attached]
    BY <1>2, <1>5, <2>1 DEF Agreed, Process
  <2>3. /\ live'.pc = live.pc /\ live'.todo = live.todo \ {a} /\ live'.books = books
        /\ live'.enabled = live.enabled /\ live'.lots = lots
        /\ live'.attached = attached /\ live'.inventory = live.inventory
    BY <1>2, <2>2 DEF Process
  <2>4. /\ \A b \in Accounts \ {a} : books[b] = live.books[b] /\ lots[b] = live.lots[b]
        /\ books[a] = "agree" /\ lots[a] = BrokerLots(a)
    BY <1>2, <2>1 DEF Process
  <2>5. ASSUME NEW b \in Accounts, b # a
        PROVE  Lots(Held(attached, live.inventory.lots), KeysOf(b)) =
                   Lots(Held(live.attached, live.inventory.lots), KeysOf(b))
    <3>1. PICK f, g : f = Held(live.attached, live.inventory.lots)
                      /\ g = Held(attached, live.inventory.lots)
      OBVIOUS
    <3>2. KeysOf(b) \subseteq Keys /\ StrategiesOf(a) \intersect KeysOf(b) = {}
      BY <2>5, KeysApart DEF KeysOf, StrategiesOf, Keys
    <3>3. \A k \in KeysOf(b) : f[k] \in Int /\ g[k] = f[k]
      BY <1>2, <1>5, <3>1, <3>2 DEF Held, Process, Inventory
    <3> QED
      BY <3>1, <3>3, KeysAreFinite, SameSums
  <2>6. BooksAgree(live)'
    BY <1>3, <1>5, <2>3, <2>4, <2>5 DEF BooksInv, BooksAgree
  <2>7. DifferingArePaused'
    BY <2>3, <2>4 DEF BooksInv, DifferingArePaused
  <2>8. InventoryIsRead'
    <3>1. \A b \in live.todo \ {a} : \A s \in StrategiesOf(b) : attached[s] = live.attached[s]
      BY <1>5 DEF StrategiesOf
    <3> QED
      BY <1>2, <1>3, <2>3, <3>1 DEF BooksInv, InventoryIsRead
  <2> QED
    BY <2>6, <2>7, <2>8
<1>6. CASE Fail(Differing(a))
  <2>1. live.starting \in BOOLEAN
    BY <1>2 DEF Process
  <2>2. CASE live.starting
    BY <1>6, <2>2, NothingRead DEF Fail, NoProcess
  <2>3. CASE ~live.starting
    <3>1. PICK books, lots, off : books = [live.books EXCEPT ![a] = "differ"]
                           /\ lots = [live.lots EXCEPT ![a] = BrokerLots(a)]
                           /\ off = [b \in Accounts |-> FALSE]
      OBVIOUS
    <3>2. live' = [live EXCEPT !.lots = lots, !.books = books, !.pc = "ticks", !.todo = {},
                               !.enabled = off]
      BY <1>2, <1>6, <2>3, <3>1 DEF Fail, Differing, Process
    <3>3. /\ live'.pc = "ticks" /\ live'.books = books /\ live'.enabled = off /\ live'.lots = lots
          /\ live'.attached = live.attached /\ live'.inventory = live.inventory
      BY <1>2, <3>2 DEF Process
    <3>4. /\ \A b \in Accounts \ {a} : books[b] = live.books[b] /\ lots[b] = live.lots[b]
          /\ books[a] = "differ"
      BY <1>2, <3>1 DEF Process
    <3>5. BooksAgree(live)'
      BY <1>3, <3>3, <3>4 DEF BooksInv, BooksAgree
    <3> QED
      BY <3>1, <3>3, <3>5 DEF DifferingArePaused, InventoryIsRead
  <2> QED
    BY <2>1, <2>2, <2>3
<1>7. \/ Unanswered(a)
      \/ Agreed(a, live.attached) /\ Lots(live.inventory.lots, KeysOf(a)) = BrokerLots(a)
      \/ /\ Agreed(a, Taken(a)) /\ Lots(live.inventory.lots, KeysOf(a)) = 0
         /\ Cardinality(StrategiesOf(a)) = 1
      \/ Fail(Differing(a))
  BY <1>1, <1>2, HydrateEffect
<1>8. /\ live.attached \in [Strategies -> Nat] /\ Taken(a) \in [Strategies -> Nat]
      /\ \A s \in Strategies \ StrategiesOf(a) : Taken(a)[s] = live.attached[s]
  BY <1>2, BrokerLotsType DEF Process, Taken
<1>9. CASE Agreed(a, live.attached) /\ Lots(live.inventory.lots, KeysOf(a)) = BrokerLots(a)
  <2>1. Lots(Held(live.attached, live.inventory.lots), KeysOf(a)) = BrokerLots(a)
    BY <1>2, <1>3, <1>8, <1>9, AgreedBooks
  <2> QED
    BY <1>5, <1>8, <1>9, <2>1
<1>10. CASE /\ Agreed(a, Taken(a)) /\ Lots(live.inventory.lots, KeysOf(a)) = 0
            /\ Cardinality(StrategiesOf(a)) = 1
  <2>1. Lots(Held(Taken(a), live.inventory.lots), KeysOf(a)) = BrokerLots(a)
    BY <1>2, <1>3, <1>8, <1>10, AgreedBooks
  <2> QED
    BY <1>5, <1>8, <1>10, <2>1
<1> QED
  BY <1>4, <1>6, <1>7, <1>9, <1>10

LEMMA BooksStep == BooksInv /\ [Next]_vars => BooksInv'
<1> SUFFICES ASSUME BooksInv, [Next]_vars PROVE BooksInv'
  OBVIOUS
<1> DEFINE Goal == BooksAgree(live)' /\ DifferingArePaused' /\ InventoryIsRead'
<1>0. TypeOK /\ live \in Process /\ BooksAgree(live)
  BY DEF BooksInv, TypeOK
<1>1. ASSUME live' = live, config' = config PROVE Goal
  BY <1>1, BooksStay
<1>2. ASSUME NEW o \in Orders, Trade(o) \/ Cancel(o) PROVE BooksInv'
  BY <1>0, <1>1, <1>2, BrokerTypes DEF Trade, Cancel, BooksInv
<1>3. ASSUME NEW o \in Orders, submit_order(o) PROVE BooksInv'
  <2>1. live' = [live EXCEPT !.memory.orders = @ \union {o}] /\ config' = config
    BY <1>3 DEF submit_order
  <2>2. /\ live'.books = live.books /\ live'.lots = live.lots /\ live'.attached = live.attached
        /\ live'.inventory = live.inventory /\ live'.enabled = live.enabled
        /\ live'.pc = live.pc /\ live'.todo = live.todo
    BY <1>0, <2>1 DEF Process
  <2> QED
    BY <1>0, <1>3, <2>1, <2>2, BrokerTypes, BooksStay DEF BooksInv
<1>4. ASSUME NEW a \in Accounts, OnRtn(a) \/ Drop(a) PROVE BooksInv'
  BY <1>0, <1>1, <1>4, OnRtnTypes DEF OnRtn, Drop, BooksInv
<1>5. CASE Start
  <2>1. live'.pc = "waiting" /\ \A a \in Accounts : live'.books[a] = "unread"
    BY <1>5, NothingTypes DEF Start, NoProcess
  <2> QED
    BY <1>0, <1>5, <2>1, StartTypes, NothingRead DEF BooksInv
<1>6. CASE ReadStores
  BY <1>0, <1>6, ReadStoresTypes, ReadStoresBooks DEF BooksInv
<1>7. CASE hydrate_live_positions_from_broker
  BY <1>0, <1>7, HydrateTypes, HydrateBooks DEF BooksInv
<1>8. ASSUME config' = config, live'.books = live.books, live'.lots = live.lots,
             live'.attached = live.attached, live'.inventory = live.inventory,
             live'.enabled = live.enabled,
             live.pc # "positions" \/ live.todo = {},
             live'.pc \notin {"down", "waiting", "positions", "state", "top"}
      PROVE  Goal
  BY <1>8, BooksStay
<1>9. CASE query_working_orders
  <2>1. PICK todo, opened, answer :
            \/ live' = [live EXCEPT !.todo = todo]
            \/ live' = [live EXCEPT !.pc = "seed", !.todo = todo, !.opened = opened, !.answer = answer]
    BY <1>9 DEF query_working_orders
  <2>2. live.pc = "orders" /\ config' = config
    BY <1>9 DEF query_working_orders
  <2>3. Goal
    BY <1>0, <1>8, <2>1, <2>2 DEF Process
  <2> QED
    BY <1>0, <1>9, <2>3, QueryTypes DEF BooksInv
<1>10. CASE hydrate_live_working_orders_from_broker
  <2>1. live' = [live EXCEPT !.pc = "orders", !.answer = {},
                   !.opened = @ \union {r.order : r \in live.answer}]
        /\ live.pc = "seed" /\ config' = config
    BY <1>10 DEF hydrate_live_working_orders_from_broker
  <2>2. Goal
    BY <1>0, <1>8, <2>1 DEF Process
  <2> QED
    BY <1>0, <1>10, <2>2, SeedTypes DEF BooksInv
<1>11. CASE recover_live_trades_from_broker
  <2>1. PICK a : a = NextAccount
    OBVIOUS
  <2>2. live.pc = "trades" /\ config' = config
    BY <1>11 DEF recover_live_trades_from_broker
  <2>3. PICK todo, recovered, closed :
           \/ live' = [live EXCEPT !.todo = todo, !.failed = TRUE]
           \/ live' = [live EXCEPT !.todo = todo, !.recovered = recovered, !.closed = closed]
    BY <1>0, <1>11, <2>1, RecoverEffect
  <2>4. Goal
    BY <1>0, <1>8, <2>2, <2>3 DEF Process
  <2> QED
    BY <1>0, <1>11, <2>4, RecoverTypes DEF BooksInv
<1>12. CASE NextQuery
  <2>1. \/ live' = [live EXCEPT !.pc = "orders", !.todo = Accounts]
        \/ live' = [live EXCEPT !.pc = "trades", !.todo = Accounts]
    BY <1>12 DEF NextQuery
  <2>2. live.todo = {} /\ config' = config
    BY <1>12 DEF NextQuery
  <2>3. Goal
    BY <1>0, <1>8, <2>1, <2>2 DEF Process
  <2> QED
    BY <1>0, <1>12, <2>3, ReplayTypes DEF BooksInv
<1>13. CASE replay_recovered_live_trades_to_strategies
  <2>1. PICK place \in {"telemetry", "ticks"}, memory \in Memory, replays \in [Trades -> Nat] :
               live' = [live EXCEPT !.pc = place, !.starting = FALSE, !.recovered = {},
                                    !.memory = memory, !.replays = replays]
    BY <1>0, <1>13, ReplayEffect
  <2>2. live.pc = "trades" /\ config' = config
    BY <1>13 DEF replay_recovered_live_trades_to_strategies
  <2>3. Goal
    BY <1>0, <1>8, <2>1, <2>2 DEF Process
  <2> QED
    BY <1>0, <1>13, <2>3, ReplayTypes DEF BooksInv
<1>14. CASE ensure_ready
  <2>1. PICK enabled \in [Accounts -> BOOLEAN] : Reconnected(enabled)
    BY <1>0, <1>14, EnsureReadyEffect
  <2>2. live.pc = "top" /\ config' = config
    BY <1>0, <1>14, EnsureReadyEffect
  <2>3. /\ live'.books = live.books /\ live'.lots = live.lots
        /\ live'.attached = live.attached /\ live'.inventory = live.inventory
        /\ live'.enabled = enabled
        /\ \/ live'.pc = "ticks" /\ \A a \in Accounts : enabled[a] => live.enabled[a]
           \/ live'.pc = "positions" /\ live'.todo = Accounts
    <3>1. CASE live' = [live EXCEPT !.pc = "ticks", !.todo = {}, !.enabled = enabled]
               /\ \A a \in Accounts : enabled[a] => live.enabled[a]
      BY <1>0, <3>1 DEF Process
    <3>2. CASE live' = [live EXCEPT !.pc = "positions", !.todo = Accounts, !.enabled = enabled]
      BY <1>0, <3>2 DEF Process
    <3> QED
      BY <2>1, <3>1, <3>2 DEF Reconnected
  <2>4. \A a : KeysOf(a)' = KeysOf(a) /\ StrategiesOf(a)' = StrategiesOf(a)
               /\ StrategiesOf(a) \subseteq Strategies
    BY <2>2 DEF KeysOf, StrategiesOf
  <2>5. BooksAgree(live)'
    BY <2>3, <2>4 DEF BooksInv, BooksAgree
  <2>6. DifferingArePaused'
    BY <2>2, <2>3 DEF BooksInv, DifferingArePaused
  <2>7. InventoryIsRead'
    BY <2>2, <2>3, <2>4 DEF BooksInv, InventoryIsRead
  <2> QED
    BY <1>0, <1>14, <2>5, <2>6, <2>7, EnsureReadyTypes DEF BooksInv
<1>15. CASE drain_order_events
  <2>1. PICK p \in DrainedFrom(live) : live' = [p EXCEPT !.pc = "telemetry"]
    BY <1>0, <1>15, DrainEffect
  <2>2. live.pc = "ticks" /\ config' = config
    BY <1>0, <1>15, DrainEffect
  <2>3. p \in Process /\ BooksAgree(p) /\ p.books = live.books /\ p.enabled = live.enabled
    BY DEF DrainedFrom, Untouched
  <2>4. /\ live'.books = p.books /\ live'.lots = p.lots /\ live'.attached = p.attached
        /\ live'.inventory = p.inventory /\ live'.enabled = p.enabled /\ live'.pc = "telemetry"
    BY <2>1, <2>3 DEF Process
  <2>5. \A a : KeysOf(a)' = KeysOf(a)
    BY <2>2 DEF KeysOf, StrategiesOf
  <2>6. BooksAgree(live)'
    BY <2>3, <2>4, <2>5 DEF BooksAgree
  <2>7. DifferingArePaused' /\ InventoryIsRead'
    BY <2>2, <2>3, <2>4 DEF BooksInv, DifferingArePaused, InventoryIsRead
  <2> QED
    BY <1>0, <1>15, <2>6, <2>7, DrainTypes DEF BooksInv
<1>16. CASE write_live_telemetry_file
  <2>1. live' = [live EXCEPT !.pc = "inventory"] /\ live.pc = "telemetry" /\ config' = config
    BY <1>16 DEF write_live_telemetry_file
  <2>2. Goal
    BY <1>0, <1>8, <2>1 DEF Process
  <2> QED
    BY <1>0, <1>16, <2>2, WriteTypes DEF BooksInv
<1>17. CASE write_strategy_inventory_store
  <2>1. PICK store \in Inventory :
            /\ store = [live.inventory EXCEPT !.lots = Held(live.attached, live.inventory.lots)]
            /\ live' = [live EXCEPT !.pc = "state", !.inventory = store]
    BY <1>0, <1>17, SyncedStore DEF write_strategy_inventory_store
  <2>2. live.pc = "inventory" /\ config' = config
    BY <1>17 DEF write_strategy_inventory_store
  <2>3. /\ live'.books = live.books /\ live'.lots = live.lots /\ live'.attached = live.attached
        /\ live'.inventory = store /\ live'.enabled = live.enabled /\ live'.pc = "state"
    BY <1>0, <2>1 DEF Process
  <2>4. store.lots = Held(live.attached, live.inventory.lots)
    BY <1>0, <2>1 DEF Process, Inventory
  <2>5. Held(live.attached, store.lots) = Held(live.attached, live.inventory.lots)
    BY <2>4 DEF Held
  <2>6. \A s \in Strategies : live.attached[s] = store.lots[s]
    BY <2>4 DEF Held, Keys
  <2>7. \A a : KeysOf(a)' = KeysOf(a)
    BY <2>2 DEF KeysOf, StrategiesOf
  <2>8. BooksAgree(live)'
    BY <2>3, <2>5, <2>7 DEF BooksInv, BooksAgree
  <2>9. DifferingArePaused' /\ InventoryIsRead'
    BY <2>2, <2>3, <2>6 DEF BooksInv, DifferingArePaused, InventoryIsRead
  <2> QED
    BY <1>0, <1>17, <2>8, <2>9, WriteTypes DEF BooksInv
<1>18. CASE write_strategy_state_store
  <2>1. live' = [live EXCEPT !.pc = "top"] /\ live.pc = "state" /\ config' = config
    BY <1>18 DEF write_strategy_state_store
  <2>2. /\ live'.books = live.books /\ live'.lots = live.lots /\ live'.attached = live.attached
        /\ live'.inventory = live.inventory /\ live'.enabled = live.enabled /\ live'.pc = "top"
    BY <1>0, <2>1 DEF Process
  <2>3. Goal
    BY <2>1, <2>2, BooksStay
  <2> QED
    BY <1>0, <1>18, <2>3, WriteTypes DEF BooksInv
<1>19. CASE Crash
  <2>1. live'.pc = "down" /\ \A a \in Accounts : live'.books[a] = "unread"
    BY <1>19 DEF Crash, NoProcess
  <2> QED
    BY <1>0, <1>19, <2>1, CrashTypes, NothingRead DEF BooksInv
<1>20. CASE UNCHANGED vars
  <2>1. TypeOK'
    BY <1>0, <1>20 DEF vars, TypeOK
  <2> QED
    BY <1>1, <1>20, <2>1 DEF vars, BooksInv
<1> QED
  BY <1>2, <1>3, <1>4, <1>5, <1>6, <1>7, <1>9, <1>10, <1>11, <1>12, <1>13, <1>14, <1>15, <1>16,
     <1>17, <1>18, <1>19, <1>20 DEF Next, RunLive, Reconcile

\* The types of everything the recovery keeps, at every step.
THEOREM RecoveryTypes == Spec => []TypeOK
<1>1. BooksInv => TypeOK
  BY DEF BooksInv
<1> QED
  BY InitBooks, BooksStep, <1>1, PTL DEF Spec

\* Between its reconciliations what the strategies of an account hold, with
\* what was bought by hand, is what the account holds: for any accounts, orders
\* and volumes, and however many sessions, processes and queries fail.
THEOREM BooksAddUp == Spec => []AttachmentsAddUp
<1>1. BooksInv => AttachmentsAddUp
  <2> SUFFICES ASSUME BooksInv, NEW a \in Accounts, live.pc # "positions",
                      live.enabled[a], live.books[a] \in {"agree", "differ"}
               PROVE  live.lots[a] = Lots(sync_inventory_store_from_live_attachments.lots, KeysOf(a))
    BY DEF AttachmentsAddUp
  <2>1. live.books[a] = "agree"
    BY DEF BooksInv, DifferingArePaused
  <2>2. sync_inventory_store_from_live_attachments.lots = Held(live.attached, live.inventory.lots)
    BY SyncedStore DEF BooksInv, TypeOK, Process, Inventory
  <2> QED
    BY <2>1, <2>2 DEF BooksInv, BooksAgree
<1> QED
  BY InitBooks, BooksStep, <1>1, PTL DEF Spec

-----------------------------------------------------------------------------
(* Replays and adjustments.                                                *)

\* A trade that was recovered or replayed is known from a fill record of the
\* process, so that a later list of the broker does not bring it back.
ReplayedAreKnown ==
    \A t \in Trades :
        /\ t \in live.recovered => live.replays[t] = 0
        /\ live.replays[t] <= 1
        /\ t \in live.recovered \/ live.replays[t] = 1 =>
               t \in build_known_recovered_trade_keys(live.closed)

MemoryInv == BooksInv /\ ReplayedAreKnown /\ AdjustedOnce

LEMMA InitMemory == Init => MemoryInv
<1> SUFFICES ASSUME Init PROVE MemoryInv
  OBVIOUS
<1>1. live.recovered = {} /\ \A t \in Trades : live.replays[t] = 0
  BY DEF Init, NoProcess
<1>2. live.inventory = NoInventory /\ files.inventory = NoInventory
  BY DEF Init, NoProcess
<1>3. NoInventory.lots[Manual] = 0 /\ NoInventory.adjusted = FALSE
  BY DEF NoInventory, NoLots, Keys
<1> QED
  BY <1>1, <1>2, <1>3, InitBooks DEF MemoryInv, ReplayedAreKnown, AdjustedOnce

\* A step that recovers and replays nothing, and forgets no fill record.
LEMMA ReplaysStay ==
    ASSUME ReplayedAreKnown, live'.recovered = live.recovered, live'.replays = live.replays,
           live.closed \subseteq live'.closed
    PROVE  ReplayedAreKnown'
  BY DEF ReplayedAreKnown, build_known_recovered_trade_keys

\* A process that is not running, or was just started.
LEMMA NothingReplayed ==
    ASSUME live'.recovered = {}, \A t \in Trades : live'.replays[t] = 0
    PROVE  ReplayedAreKnown'
  BY DEF ReplayedAreKnown

LEMMA NoProcessHasReplayed ==
    ASSUME live' = NoProcess
    PROVE  ReplayedAreKnown'
  BY NothingReplayed DEF NoProcess

\* The fill records of recovered trades make them known.
LEMMA RecoveredAreKnown ==
    ASSUME NEW missed \in SUBSET Trades
    PROVE  missed \subseteq build_known_recovered_trade_keys({Fill(t[1], t[2], 1) : t \in missed})
<1> SUFFICES ASSUME NEW t \in missed
             PROVE  t \in build_known_recovered_trade_keys({Fill(u[1], u[2], 1) : u \in missed})
  OBVIOUS
<1>1. PICK o \in Orders, k \in Nat : t = <<o, k>>
  BY TradesType
<1>2. PICK r : r = Fill(t[1], t[2], 1)
  OBVIOUS
<1>3. r.order = o /\ r.trade = k
  BY <1>1, <1>2 DEF Fill
<1>4. r \in {Fill(u[1], u[2], 1) : u \in missed}
  BY <1>2
<1> QED
  BY <1>1, <1>3, <1>4 DEF build_known_recovered_trade_keys

LEMMA ReplayedStep == MemoryInv /\ [Next]_vars => ReplayedAreKnown'
<1> SUFFICES ASSUME MemoryInv, [Next]_vars PROVE ReplayedAreKnown'
  OBVIOUS
<1>0. TypeOK /\ live \in Process /\ BooksAgree(live) /\ ReplayedAreKnown
  BY DEF MemoryInv, BooksInv, TypeOK
<1>1. ASSUME live' = live PROVE ReplayedAreKnown'
  BY <1>0, <1>1, ReplaysStay
<1>2. ASSUME live'.recovered = live.recovered, live'.replays = live.replays,
             live'.closed = live.closed
      PROVE  ReplayedAreKnown'
  BY <1>0, <1>2, ReplaysStay
<1>3. ASSUME NEW o \in Orders, Trade(o) \/ Cancel(o) PROVE ReplayedAreKnown'
  BY <1>1, <1>3 DEF Trade, Cancel
<1>4. ASSUME NEW o \in Orders, submit_order(o) PROVE ReplayedAreKnown'
  <2>1. live' = [live EXCEPT !.memory.orders = @ \union {o}]
    BY <1>4 DEF submit_order
  <2> QED
    BY <1>0, <1>2, <2>1 DEF Process
<1>5. ASSUME NEW a \in Accounts, OnRtn(a) \/ Drop(a) PROVE ReplayedAreKnown'
  BY <1>1, <1>5 DEF OnRtn, Drop
<1>6. CASE Start
  BY <1>6, NothingTypes, NothingReplayed DEF Start, NoProcess
<1>7. CASE ReadStores
  <2>1. PICK todo, store, orders, memory, attached, recorded :
           live' = [live EXCEPT !.pc = "positions", !.todo = todo, !.inventory = store,
                       !.bindings = orders, !.memory = memory,
                       !.attached = attached, !.recorded = recorded]
    BY <1>7 DEF ReadStores
  <2> QED
    BY <1>0, <1>2, <2>1 DEF Process
<1>9. CASE hydrate_live_positions_from_broker
  <2>1. PICK a : a = NextAccount
    OBVIOUS
  <2>2. CASE Unanswered(a)
    <3>1. PICK todo, books : live' = [live EXCEPT !.todo = todo, !.books = books]
      BY <2>2 DEF Unanswered
    <3> QED
      BY <1>0, <1>2, <3>1 DEF Process
  <2>3. ASSUME NEW attached, Agreed(a, attached) PROVE ReplayedAreKnown'
    <3>1. PICK lots, books, todo : live' = [live EXCEPT !.lots = lots, !.books = books,
                                               !.todo = todo, !.attached = attached]
      BY <2>3 DEF Agreed
    <3> QED
      BY <1>0, <1>2, <3>1 DEF Process
  <2>4. CASE Fail(Differing(a))
    <3>1. PICK lots, books : Differing(a) = [live EXCEPT !.lots = lots, !.books = books]
      BY DEF Differing
    <3>2. /\ Differing(a).recovered = live.recovered /\ Differing(a).replays = live.replays
          /\ Differing(a).closed = live.closed
      BY <1>0, <3>1 DEF Process
    <3>3. live.starting \in BOOLEAN
      BY <1>0 DEF Process
    <3>4. CASE live.starting
      BY <2>4, <3>4, NoProcessHasReplayed DEF Fail
    <3>5. CASE ~live.starting
      <4>1. PICK off : live' = [Differing(a) EXCEPT !.pc = "ticks", !.todo = {}, !.enabled = off]
        BY <2>4, <3>5 DEF Fail
      <4> QED
        BY <1>0, <1>2, <3>1, <4>1 DEF Process
    <3> QED
      BY <3>3, <3>4, <3>5
  <2> QED
    BY <1>0, <1>9, <2>1, <2>2, <2>3, <2>4, HydrateEffect
<1>10. CASE query_working_orders
  <2>1. PICK todo, opened, answer :
            \/ live' = [live EXCEPT !.todo = todo]
            \/ live' = [live EXCEPT !.pc = "seed", !.todo = todo, !.opened = opened, !.answer = answer]
    BY <1>10 DEF query_working_orders
  <2> QED
    BY <1>0, <1>2, <2>1 DEF Process
<1>11. CASE hydrate_live_working_orders_from_broker
  <2>1. PICK opened : live' = [live EXCEPT !.pc = "orders", !.answer = {}, !.opened = opened]
    BY <1>11 DEF hydrate_live_working_orders_from_broker
  <2> QED
    BY <1>0, <1>2, <2>1 DEF Process
<1>12. CASE recover_live_trades_from_broker
  <2>1. PICK a : a = NextAccount
    OBVIOUS
  <2>2. PICK missed, fills : missed = Missed(a) /\ fills = {Fill(t[1], t[2], 1) : t \in Missed(a)}
    OBVIOUS
  <2>3. CASE live' = [live EXCEPT !.todo = live.todo \ {a}, !.failed = TRUE]
    BY <1>0, <1>2, <2>3 DEF Process
  <2>4. CASE live' = [live EXCEPT !.todo = live.todo \ {a},
                        !.recovered = live.recovered \union missed,
                        !.closed = live.closed \union fills]
    <3>1. /\ live'.recovered = live.recovered \union missed
          /\ live'.closed = live.closed \union fills /\ live'.replays = live.replays
      BY <1>0, <2>4 DEF Process
    <3>2. missed \subseteq Trades
      BY <2>2 DEF Missed
    <3>3. missed \subseteq build_known_recovered_trade_keys(fills)
      BY <2>2, <3>2, RecoveredAreKnown
    <3>4. \A t \in missed : t \notin build_known_recovered_trade_keys(live.closed)
      BY <2>2 DEF Missed, Known, build_known_recovered_trade_keys
    <3>5. build_known_recovered_trade_keys(live'.closed) =
              build_known_recovered_trade_keys(live.closed) \union build_known_recovered_trade_keys(fills)
      BY <3>1 DEF build_known_recovered_trade_keys
    <3>6. \A t \in Trades : live.replays[t] \in Nat
      BY <1>0 DEF Process
    <3> SUFFICES ASSUME NEW t \in Trades
                 PROVE  /\ t \in live'.recovered => live'.replays[t] = 0
                        /\ live'.replays[t] <= 1
                        /\ t \in live'.recovered \/ live'.replays[t] = 1 =>
                               t \in build_known_recovered_trade_keys(live'.closed)
      BY DEF ReplayedAreKnown
    <3>7. /\ t \in live.recovered => live.replays[t] = 0
          /\ live.replays[t] <= 1
          /\ t \in live.recovered \/ live.replays[t] = 1 =>
                 t \in build_known_recovered_trade_keys(live.closed)
      BY <1>0 DEF ReplayedAreKnown
    <3> QED
      BY <3>1, <3>3, <3>4, <3>5, <3>6, <3>7
  <2> QED
    BY <1>0, <1>12, <2>1, <2>2, <2>3, <2>4, RecoverEffect
<1>13. CASE NextQuery
  <2>1. \/ live' = [live EXCEPT !.pc = "orders", !.todo = Accounts]
        \/ live' = [live EXCEPT !.pc = "trades", !.todo = Accounts]
    BY <1>13 DEF NextQuery
  <2> QED
    BY <1>0, <1>2, <2>1 DEF Process
<1>14. CASE replay_recovered_live_trades_to_strategies
  <2>1. PICK place \in {"telemetry", "ticks"}, memory \in Memory, replays \in [Trades -> Nat] :
             /\ replays = [t \in Trades |-> IF t \in live.recovered THEN live.replays[t] + 1
                                            ELSE live.replays[t]]
             /\ live' = [live EXCEPT !.pc = place, !.starting = FALSE, !.recovered = {},
                                     !.memory = memory, !.replays = replays]
    BY <1>0, <1>14, ReplayEffect
  <2>2. live'.recovered = {} /\ live'.replays = replays /\ live'.closed = live.closed
    BY <1>0, <2>1 DEF Process
  <2>3. \A t \in Trades : live.replays[t] \in Nat
    BY <1>0 DEF Process
  <2> SUFFICES ASSUME NEW t \in Trades
               PROVE  /\ replays[t] <= 1
                      /\ replays[t] = 1 => t \in build_known_recovered_trade_keys(live.closed)
    BY <2>2 DEF ReplayedAreKnown
  <2>4. /\ t \in live.recovered => live.replays[t] = 0
        /\ live.replays[t] <= 1
        /\ t \in live.recovered \/ live.replays[t] = 1 =>
               t \in build_known_recovered_trade_keys(live.closed)
    BY <1>0 DEF ReplayedAreKnown
  <2>5. replays[t] = IF t \in live.recovered THEN live.replays[t] + 1 ELSE live.replays[t]
    BY <2>1
  <2> QED
    BY <2>3, <2>4, <2>5
<1>15. CASE ensure_ready
  <2>1. PICK enabled \in [Accounts -> BOOLEAN] : Reconnected(enabled)
    BY <1>0, <1>15, EnsureReadyEffect
  <2> QED
    BY <1>0, <1>2, <2>1 DEF Reconnected, Process
<1>16. CASE drain_order_events
  <2>1. PICK p \in DrainedFrom(live) : live' = [p EXCEPT !.pc = "telemetry"]
    BY <1>0, <1>16, DrainEffect
  <2>2. p \in Process /\ p.recovered = live.recovered /\ p.replays = live.replays
        /\ live.closed \subseteq p.closed
    BY DEF DrainedFrom, Untouched
  <2>3. live'.recovered = p.recovered /\ live'.replays = p.replays /\ live'.closed = p.closed
    BY <2>1, <2>2 DEF Process
  <2> QED
    BY <1>0, <2>2, <2>3, ReplaysStay
<1>17. CASE write_live_telemetry_file \/ write_strategy_state_store
  <2>1. live' = [live EXCEPT !.pc = "inventory"] \/ live' = [live EXCEPT !.pc = "top"]
    BY <1>17 DEF write_live_telemetry_file, write_strategy_state_store
  <2> QED
    BY <1>0, <1>2, <2>1 DEF Process
<1>18. CASE write_strategy_inventory_store
  <2>1. PICK store : live' = [live EXCEPT !.pc = "state", !.inventory = store]
    BY <1>18 DEF write_strategy_inventory_store
  <2> QED
    BY <1>0, <1>2, <2>1 DEF Process
<1>19. CASE Crash
  BY <1>19, NoProcessHasReplayed DEF Crash
<1>20. CASE UNCHANGED vars
  BY <1>1, <1>20 DEF vars
<1> QED
  BY <1>3, <1>4, <1>5, <1>6, <1>7, <1>9, <1>10, <1>11, <1>12, <1>13, <1>14, <1>15, <1>16,
     <1>17, <1>18, <1>19, <1>20 DEF Next, RunLive, Reconcile

\* A store whose manual entry says what it records as applied.
Once(store) == store.lots[Manual] = IF store.adjusted THEN 1 ELSE 0

LEMMA AdjustedStep == MemoryInv /\ [Next]_vars => AdjustedOnce'
<1> SUFFICES ASSUME MemoryInv, [Next]_vars PROVE AdjustedOnce'
  OBVIOUS
<1>0. /\ TypeOK /\ live \in Process /\ BooksAgree(live)
      /\ Once(files.inventory) /\ Once(live.inventory)
      /\ files.inventory \in Inventory /\ live.inventory \in Inventory
  BY DEF MemoryInv, BooksInv, TypeOK, AdjustedOnce, Once, Process
<1>1. ASSUME Once(files'.inventory), Once(live'.inventory) PROVE AdjustedOnce'
  BY <1>1 DEF AdjustedOnce, Once
<1>2. ASSUME files' = files, live'.inventory = live.inventory PROVE AdjustedOnce'
  BY <1>0, <1>1, <1>2
<1>3. Once(NoInventory) /\ NoProcess.inventory = NoInventory
  BY DEF Once, NoInventory, NoLots, Keys, NoProcess
<1>4. ASSUME NEW o \in Orders, Trade(o) \/ Cancel(o) PROVE AdjustedOnce'
  BY <1>2, <1>4 DEF Trade, Cancel
<1>5. ASSUME NEW o \in Orders, submit_order(o) PROVE AdjustedOnce'
  <2>1. live' = [live EXCEPT !.memory.orders = @ \union {o}] /\ files' = files
    BY <1>5 DEF submit_order
  <2> QED
    BY <1>0, <1>2, <2>1 DEF Process
<1>6. ASSUME NEW a \in Accounts, OnRtn(a) \/ Drop(a) PROVE AdjustedOnce'
  BY <1>2, <1>6 DEF OnRtn, Drop
<1>7. CASE Start
  <2>1. live'.inventory = NoInventory /\ files' = files
    BY <1>7, NothingTypes DEF Start, NoProcess
  <2> QED
    BY <1>0, <1>1, <1>3, <2>1
<1>8. CASE ReadStores
  <2>1. PICK todo, store, orders, memory, attached, recorded :
           /\ store = apply_manual_inventory_adjustments(files.inventory)
           /\ live' = [live EXCEPT !.pc = "positions", !.todo = todo, !.inventory = store,
                       !.bindings = orders, !.memory = memory,
                       !.attached = attached, !.recorded = recorded]
    BY <1>8 DEF ReadStores
  <2>2. live'.inventory = store /\ files' = files
    BY <1>0, <1>8, <2>1 DEF ReadStores, Process
  <2>3. Once(store)
    <3>1. CASE config.byHand /\ ~files.inventory.adjusted
      <4>1. store = [files.inventory EXCEPT !.lots[Manual] = @ + 1, !.adjusted = TRUE]
        BY <2>1, <3>1 DEF apply_manual_inventory_adjustments
      <4>2. files.inventory.lots[Manual] = 0
        BY <1>0, <3>1 DEF Once
      <4>3. store.adjusted = TRUE /\ store.lots[Manual] = 1
        BY <1>0, <4>1, <4>2 DEF Inventory, Keys
      <4> QED
        BY <4>3 DEF Once
    <3>2. CASE ~(config.byHand /\ ~files.inventory.adjusted)
      BY <1>0, <2>1, <3>2 DEF apply_manual_inventory_adjustments
    <3> QED
      BY <3>1, <3>2
  <2> QED
    BY <1>0, <1>1, <2>2, <2>3
<1>9. CASE hydrate_live_positions_from_broker
  <2>1. PICK a : a = NextAccount
    OBVIOUS
  <2>2. files' = files
    BY <1>9 DEF hydrate_live_positions_from_broker
  <2>3. CASE Unanswered(a)
    <3>1. PICK todo, books : live' = [live EXCEPT !.todo = todo, !.books = books]
      BY <2>3 DEF Unanswered
    <3> QED
      BY <1>0, <1>2, <2>2, <3>1 DEF Process
  <2>4. ASSUME NEW attached, Agreed(a, attached) PROVE AdjustedOnce'
    <3>1. PICK lots, books, todo : live' = [live EXCEPT !.lots = lots, !.books = books,
                                               !.todo = todo, !.attached = attached]
      BY <2>4 DEF Agreed
    <3> QED
      BY <1>0, <1>2, <2>2, <3>1 DEF Process
  <2>5. CASE Fail(Differing(a))
    <3>1. PICK lots, books : Differing(a) = [live EXCEPT !.lots = lots, !.books = books]
      BY DEF Differing
    <3>2. live.starting \in BOOLEAN
      BY <1>0 DEF Process
    <3>3. CASE live.starting
      BY <1>0, <1>1, <1>3, <2>2, <2>5, <3>3 DEF Fail
    <3>4. CASE ~live.starting
      <4>1. PICK off : live' = [Differing(a) EXCEPT !.pc = "ticks", !.todo = {}, !.enabled = off]
        BY <2>5, <3>4 DEF Fail
      <4> QED
        BY <1>0, <1>2, <2>2, <3>1, <4>1 DEF Process
    <3> QED
      BY <3>2, <3>3, <3>4
  <2> QED
    BY <1>0, <1>9, <2>1, <2>3, <2>4, <2>5, HydrateEffect
<1>10. CASE query_working_orders
  <2>1. PICK todo, opened, answer :
            \/ live' = [live EXCEPT !.todo = todo]
            \/ live' = [live EXCEPT !.pc = "seed", !.todo = todo, !.opened = opened, !.answer = answer]
    BY <1>10 DEF query_working_orders
  <2>2. files' = files
    BY <1>10 DEF query_working_orders
  <2> QED
    BY <1>0, <1>2, <2>1, <2>2 DEF Process
<1>11. CASE hydrate_live_working_orders_from_broker
  <2>1. PICK opened : live' = [live EXCEPT !.pc = "orders", !.answer = {}, !.opened = opened]
    BY <1>11 DEF hydrate_live_working_orders_from_broker
  <2>2. files' = files
    BY <1>11 DEF hydrate_live_working_orders_from_broker
  <2> QED
    BY <1>0, <1>2, <2>1, <2>2 DEF Process
<1>12. CASE recover_live_trades_from_broker
  <2>1. PICK a : a = NextAccount
    OBVIOUS
  <2>2. PICK todo, recovered, closed :
           \/ live' = [live EXCEPT !.todo = todo, !.failed = TRUE]
           \/ live' = [live EXCEPT !.todo = todo, !.recovered = recovered, !.closed = closed]
    BY <1>0, <1>12, <2>1, RecoverEffect
  <2>3. files' = files
    BY <1>12 DEF recover_live_trades_from_broker
  <2> QED
    BY <1>0, <1>2, <2>2, <2>3 DEF Process
<1>13. CASE NextQuery
  <2>1. \/ live' = [live EXCEPT !.pc = "orders", !.todo = Accounts]
        \/ live' = [live EXCEPT !.pc = "trades", !.todo = Accounts]
    BY <1>13 DEF NextQuery
  <2>2. files' = files
    BY <1>13 DEF NextQuery
  <2> QED
    BY <1>0, <1>2, <2>1, <2>2 DEF Process
<1>14. CASE replay_recovered_live_trades_to_strategies
  <2>1. PICK place \in {"telemetry", "ticks"}, memory \in Memory, replays \in [Trades -> Nat] :
               live' = [live EXCEPT !.pc = place, !.starting = FALSE, !.recovered = {},
                                    !.memory = memory, !.replays = replays]
    BY <1>0, <1>14, ReplayEffect
  <2>2. files' = files
    BY <1>14 DEF replay_recovered_live_trades_to_strategies
  <2> QED
    BY <1>0, <1>2, <2>1, <2>2 DEF Process
<1>15. CASE ensure_ready
  <2>1. PICK enabled \in [Accounts -> BOOLEAN] : Reconnected(enabled)
    BY <1>0, <1>15, EnsureReadyEffect
  <2>2. files' = files
    BY <1>15 DEF ensure_ready
  <2> QED
    BY <1>0, <1>2, <2>1, <2>2 DEF Reconnected, Process
<1>16. CASE drain_order_events
  <2>1. PICK p \in DrainedFrom(live) : live' = [p EXCEPT !.pc = "telemetry"]
    BY <1>0, <1>16, DrainEffect
  <2>2. p \in Process /\ p.inventory = live.inventory /\ files' = files
    BY <1>16 DEF DrainedFrom, Untouched, drain_order_events
  <2>3. live'.inventory = p.inventory
    BY <2>1, <2>2 DEF Process
  <2> QED
    BY <1>0, <1>2, <2>2, <2>3
<1>17. CASE write_live_telemetry_file \/ write_strategy_state_store
  <2>1. live' = [live EXCEPT !.pc = "inventory"] \/ live' = [live EXCEPT !.pc = "top"]
    BY <1>17 DEF write_live_telemetry_file, write_strategy_state_store
  <2>2. files'.inventory = files.inventory
    BY <1>0, <1>17 DEF write_live_telemetry_file, write_strategy_state_store, TypeOK
  <2>3. live'.inventory = live.inventory
    BY <1>0, <2>1 DEF Process
  <2> QED
    BY <1>0, <1>1, <2>2, <2>3
<1>18. CASE write_strategy_inventory_store
  <2>1. PICK store \in Inventory :
            /\ store = [live.inventory EXCEPT !.lots = Held(live.attached, live.inventory.lots)]
            /\ live' = [live EXCEPT !.pc = "state", !.inventory = store]
            /\ files' = [files EXCEPT !.inventory = [store EXCEPT !.fills = live.closed]]
    BY <1>0, <1>18, SyncedStore DEF write_strategy_inventory_store
  <2>2. /\ live'.inventory = store
        /\ files'.inventory = [store EXCEPT !.fills = live.closed]
    BY <1>0, <2>1 DEF Process, TypeOK
  <2>3. store.adjusted = live.inventory.adjusted /\ store.lots[Manual] = live.inventory.lots[Manual]
    <3>1. Held(live.attached, live.inventory.lots)[Manual] = live.inventory.lots[Manual]
      BY ManualAssumption DEF Held, Keys
    <3>2. store.lots = Held(live.attached, live.inventory.lots)
      BY <1>0, <2>1 DEF Inventory
    <3>3. store.adjusted = live.inventory.adjusted
      BY <1>0, <2>1 DEF Inventory
    <3> QED
      BY <3>1, <3>2, <3>3
  <2>4. files'.inventory.lots = store.lots /\ files'.inventory.adjusted = store.adjusted
    BY <2>2 DEF Inventory
  <2> QED
    BY <1>0, <1>1, <2>2, <2>3, <2>4 DEF Once
<1>19. CASE Crash
  <2>1. live'.inventory = NoInventory
    BY <1>3, <1>19 DEF Crash
  <2>2. files'.inventory = files.inventory \/ files'.inventory = NoInventory
    BY <1>0, <1>19 DEF Crash, TypeOK
  <2> QED
    BY <1>0, <1>1, <1>3, <2>1, <2>2
<1>20. CASE UNCHANGED vars
  BY <1>2, <1>20 DEF vars
<1> QED
  BY <1>4, <1>5, <1>6, <1>7, <1>8, <1>9, <1>10, <1>11, <1>12, <1>13, <1>14, <1>15, <1>16,
     <1>17, <1>18, <1>19, <1>20 DEF Next, RunLive, Reconcile

LEMMA MemoryStep == MemoryInv /\ [Next]_vars => MemoryInv'
  BY BooksStep, ReplayedStep, AdjustedStep DEF MemoryInv

\* A trade recovered from the broker's list is replayed to its strategy at most
\* once in the life of a process, however often it reconnects, reads the list
\* again, and is interrupted in between.
THEOREM ReplayedOnce == Spec => []RecoveredOnce
<1>1. MemoryInv => RecoveredOnce
  BY DEF MemoryInv, ReplayedAreKnown, RecoveredOnce
<1> QED
  BY InitMemory, MemoryStep, <1>1, PTL DEF Spec

\* What was bought by hand is in the inventory, in memory and on disk, exactly
\* when the store records it as applied, however often the process crashes,
\* with the file whole or truncated, and starts again.
THEOREM ManualLotsOnce == Spec => []AdjustedOnce
<1>1. MemoryInv => AdjustedOnce
  BY DEF MemoryInv
<1> QED
  BY InitMemory, MemoryStep, <1>1, PTL DEF Spec

-----------------------------------------------------------------------------
(* Every trade reaches its strategy.                                       *)

\* A trade that a fill record of the process names was told of, is about to
\* be, or was on disk; what the inventory file recorded counts as recorded.
FillsAreKnown(p) ==
    \A t \in Trades :
        /\ t \in build_known_recovered_trade_keys(p.closed) =>
               t \in p.memory.seen \union p.recorded \union p.recovered
        /\ Known(p.inventory.fills, t) => t \in p.recorded

\* A drain tells of more, and records nothing it does not tell of.
ToldFrom(base) == {p \in DrainedFrom(base) : FillsAreKnown(p) /\ base.memory.seen \subseteq p.memory.seen}

\* An event or a report of a trade.
IsOf(r, t) == r.kind = "trade" /\ r.order = t[1] /\ r.trade = t[2]

LEMMA EventTellsOf ==
    ASSUME NEW event \in Event, NEW t \in Trades, IsOf(event, t)
    PROVE  t \in LotsToldBy(event)
<1>1. PICK o \in Orders, k \in Nat : t = <<o, k>>
  BY TradesType
<1>2. PICK n \in Nat \ {0} : n = event.filled
  BY DEF Event
<1>3. k \in k - n + 1 .. k
  OBVIOUS
<1> QED
  BY <1>1, <1>2, <1>3 DEF IsOf, LotsToldBy

LEMMA EventTells ==
    ASSUME TypeOK, NEW base, NEW p \in ToldFrom(base), NEW event \in Event
    PROVE  /\ apply_live_order_event(p, event) \in ToldFrom(base)
           /\ p.memory.seen \subseteq apply_live_order_event(p, event).memory.seen
           /\ \A t \in Trades : IsOf(event, t) => t \in apply_live_order_event(p, event).memory.seen
<1>0. p \in Process /\ p \in DrainedFrom(base) /\ FillsAreKnown(p) /\ base.memory.seen \subseteq p.memory.seen
  BY DEF ToldFrom, DrainedFrom
<1>1. PICK q : q = apply_live_order_event(p, event)
  OBVIOUS
<1>2. q \in DrainedFrom(base) /\ q \in Process /\ Untouched(p, q)
  BY <1>0, <1>1, EventKeeps, EventKeepsTypes
<1>3. /\ q.memory = IF event.kind = "trade" THEN Told(p.memory, LotsToldBy(event)) ELSE p.memory
      /\ q.closed = IF event.last /\ event.kind = "trade"
                    THEN p.closed \union {Fill(event.order, event.trade, event.filled)} ELSE p.closed
  BY <1>0, <1>1 DEF apply_live_order_event, Process
<1>4. q.memory.seen = IF event.kind = "trade" THEN p.memory.seen \union LotsToldBy(event) ELSE p.memory.seen
  <2>1. p.memory \in Memory
    BY <1>0 DEF Process
  <2> QED
    BY <1>3, <2>1 DEF Told, Memory
<1>5. \A t \in Trades : IsOf(event, t) => t \in q.memory.seen
  BY <1>4, EventTellsOf DEF IsOf
<1>6. p.memory.seen \subseteq q.memory.seen
  BY <1>4
<1>7. q.recorded = p.recorded /\ q.recovered = p.recovered /\ q.inventory = p.inventory
  BY <1>2 DEF Untouched
<1>8. FillsAreKnown(q)
  <2> SUFFICES ASSUME NEW t \in Trades
               PROVE  /\ t \in build_known_recovered_trade_keys(q.closed) =>
                             t \in q.memory.seen \union q.recorded \union q.recovered
                      /\ Known(q.inventory.fills, t) => t \in q.recorded
    BY DEF FillsAreKnown
  <2>1. Known(q.inventory.fills, t) => t \in q.recorded
    BY <1>0, <1>7 DEF FillsAreKnown
  <2>2. ASSUME NEW r \in q.closed, t = <<r.order, r.trade>>
        PROVE  t \in q.memory.seen \union q.recorded \union q.recovered
    <3>1. CASE r \in p.closed
      <4>1. t \in build_known_recovered_trade_keys(p.closed)
        BY <2>2, <3>1 DEF build_known_recovered_trade_keys
      <4> QED
        BY <1>0, <1>6, <1>7, <4>1 DEF FillsAreKnown
    <3>2. CASE r \notin p.closed
      <4>1. event.kind = "trade" /\ r = Fill(event.order, event.trade, event.filled)
        BY <1>3, <3>2
      <4>2. r.order = event.order /\ r.trade = event.trade
        BY <4>1 DEF Fill
      <4> QED
        BY <1>5, <2>2, <4>1, <4>2 DEF IsOf
    <3> QED
      BY <3>1, <3>2
  <2>3. t \in build_known_recovered_trade_keys(q.closed) =>
            t \in q.memory.seen \union q.recorded \union q.recovered
    BY <2>2 DEF build_known_recovered_trade_keys
  <2> QED
    BY <2>1, <2>3
<1> QED
  BY <1>0, <1>1, <1>2, <1>5, <1>6, <1>8 DEF ToldFrom

\* The queue of one account is told from its first event to its last.
LEMMA QueueTells ==
    ASSUME TypeOK, NEW base, NEW p \in ToldFrom(base), NEW events \in Seq(Event)
    PROVE  /\ FoldLeft(apply_live_order_event, p, events) \in ToldFrom(base)
           /\ p.memory.seen \subseteq FoldLeft(apply_live_order_event, p, events).memory.seen
           /\ \A t \in Trades : \A i \in DOMAIN events : IsOf(events[i], t) =>
                  t \in FoldLeft(apply_live_order_event, p, events).memory.seen
<1>1. PICK S : S = DOMAIN events
  OBVIOUS
<1>2. PICK q : q = FoldLeft(apply_live_order_event, p, events)
  OBVIOUS
<1>3. Applying!IsFiniteSet(S) /\ Applying!Chosen(S) /\ q = Applying!Fold(S, p, events, 0)[S]
  BY <1>1, <1>2, QueueIsFolded
<1>4. PICK Good : Good = {v \in ToldFrom(base) : p.memory.seen \subseteq v.memory.seen}
  OBVIOUS
<1>5. ASSUME NEW i \in S, NEW v \in Good
      PROVE  /\ ApplyEvent(0, Item(events, i), v) \in Good
             /\ v.memory.seen \subseteq ApplyEvent(0, Item(events, i), v).memory.seen
             /\ \A t \in Trades : IsOf(events[i], t) => t \in ApplyEvent(0, Item(events, i), v).memory.seen
  <2>1. events[i] \in Event
    BY <1>1
  <2>2. PICK w : w = apply_live_order_event(v, events[i])
    OBVIOUS
  <2>3. /\ w \in ToldFrom(base) /\ v.memory.seen \subseteq w.memory.seen
        /\ \A t \in Trades : IsOf(events[i], t) => t \in w.memory.seen
    BY <1>4, <2>1, <2>2, EventTells
  <2>4. w \in Good
    BY <1>4, <2>3
  <2> QED
    BY <2>2, <2>3, <2>4 DEF ApplyEvent, Item
<1>6. p \in Good
  BY <1>4
<1>7. q \in Good
  <2>1. \A i \in S : \A v \in Good : ApplyEvent(0, Item(events, i), v) \in Good
    BY <1>5
  <2> QED
    BY <1>3, <1>6, <2>1, Applying!FoldKeeps
<1>8. ASSUME NEW t \in Trades, NEW k \in S, IsOf(events[k], t) PROVE t \in q.memory.seen
  <2>1. PICK Best : Best = {v \in Good : t \in v.memory.seen}
    OBVIOUS
  <2>2. \A i \in S : \A v \in Good : ApplyEvent(0, Item(events, i), v) \in Good
    BY <1>5
  <2>3. \A i \in S : \A v \in Good \intersect Best : ApplyEvent(0, Item(events, i), v) \in Best
    BY <1>5, <2>1
  <2>4. \A v \in Good : ApplyEvent(0, Item(events, k), v) \in Best
    BY <1>5, <1>8, <2>1
  <2>5. q \in Good \intersect Best
    BY <1>3, <1>6, <2>2, <2>3, <2>4, Applying!FoldReaches
  <2> QED
    BY <2>1, <2>5
<1> QED
  BY <1>1, <1>2, <1>4, <1>7, <1>8

LEMMA QueuesTell ==
    ASSUME TypeOK, live \in ToldFrom(live)
    PROVE  /\ Drained \in ToldFrom(live)
           /\ \A t \in Trades : \A a \in Accounts : \A i \in DOMAIN gateway[a].events :
                  IsOf(gateway[a].events[i], t) => t \in Drained.memory.seen
<1>1. PICK Good : Good = ToldFrom(live)
  OBVIOUS
<1>2. ASSUME NEW a \in Accounts, NEW v \in Good
      PROVE  /\ DrainAccount(0, Itself(0, a), v) \in Good
             /\ v.memory.seen \subseteq DrainAccount(0, Itself(0, a), v).memory.seen
             /\ \A t \in Trades : \A i \in DOMAIN gateway[a].events :
                    IsOf(gateway[a].events[i], t) => t \in DrainAccount(0, Itself(0, a), v).memory.seen
  <2>1. gateway[a].events \in Seq(Event)
    BY DEF TypeOK, Session
  <2>2. PICK events : events = gateway[a].events
    OBVIOUS
  <2>3. PICK w : w = FoldLeft(apply_live_order_event, v, events)
    OBVIOUS
  <2>4. /\ w \in Good /\ v.memory.seen \subseteq w.memory.seen
        /\ \A t \in Trades : \A i \in DOMAIN events : IsOf(events[i], t) => t \in w.memory.seen
    BY <1>1, <2>1, <2>2, <2>3, QueueTells
  <2> QED
    BY <2>2, <2>3, <2>4 DEF DrainAccount, Itself
<1>3. \A a \in Accounts : \A v \in Good : DrainAccount(0, Itself(0, a), v) \in Good
  BY <1>2
<1>4. PICK base : base = live
  OBVIOUS
<1>5. base \in Good /\ Drained = Draining!Fold(Accounts, base, 0, 0)[Accounts]
  BY <1>1, <1>4, QueuesAreFolded
<1>6. Drained \in Good
  BY <1>3, <1>5, QueuesAreFolded, Draining!FoldKeeps
<1>7. ASSUME NEW t \in Trades, NEW k \in Accounts, NEW i \in DOMAIN gateway[k].events,
             IsOf(gateway[k].events[i], t)
      PROVE  t \in Drained.memory.seen
  <2>1. PICK Best : Best = {v \in Good : t \in v.memory.seen}
    OBVIOUS
  <2>3. \A a \in Accounts : \A v \in Good \intersect Best : DrainAccount(0, Itself(0, a), v) \in Best
    BY <1>2, <2>1
  <2>4. \A v \in Good : DrainAccount(0, Itself(0, k), v) \in Best
    BY <1>2, <1>7, <2>1
  <2>5. PICK S : S = Accounts /\ k \in S /\ Draining!Chosen(S) /\ Draining!IsFiniteSet(S)
    BY <1>7, QueuesAreFolded
  <2>6. Draining!Fold(S, base, 0, 0)[S] \in Good \intersect Best
    BY <1>3, <1>5, <2>3, <2>4, <2>5, Draining!FoldReaches
  <2> QED
    BY <1>5, <2>1, <2>5, <2>6
<1> QED
  BY <1>1, <1>6, <1>7

LEMMA DrainTells ==
    ASSUME TypeOK, BooksAgree(live), FillsAreKnown(live), drain_order_events
    PROVE  \E p \in ToldFrom(live) :
             /\ live' = [p EXCEPT !.pc = "telemetry"]
             /\ \A t \in Trades : \A a \in Accounts : \A i \in DOMAIN gateway[a].events :
                    IsOf(gateway[a].events[i], t) => t \in p.memory.seen
<1>1. live \in ToldFrom(live)
  BY DEF ToldFrom, DrainedFrom, Untouched, TypeOK
<1>2. live' = [Drained EXCEPT !.pc = "telemetry"]
  BY DEF drain_order_events, Drained
<1>3. /\ Drained \in ToldFrom(live)
      /\ \A t \in Trades : \A a \in Accounts : \A i \in DOMAIN gateway[a].events :
             IsOf(gateway[a].events[i], t) => t \in Drained.memory.seen
  BY <1>1, QueuesTell
<1>4. PICK p : p = Drained
  OBVIOUS
<1> QED
  BY <1>2, <1>3, <1>4

\* A report of the trade is on its way, or its event is queued.
Coming(a, t) ==
    \/ \E i \in DOMAIN gateway[a].reports : IsOf(gateway[a].reports[i], t)
    \/ \E i \in DOMAIN gateway[a].events : IsOf(gateway[a].events[i], t)

Remembered(t) == t \in live.memory.seen \union live.recorded \union live.recovered

\* Where a trade of the broker is: its strategy was told of it or it was on
\* disk; an aggregate stands for it; the session was lost, the account is
\* paused, or a query failed; its account is still to be asked; it is coming.
Accounted(t) ==
    LET a == AccountOf(t[1])
    IN  \/ Remembered(t)
        \/ recovered_trade_is_covered_by_known_aggregate(live.closed, t)
        \/ live.failed
        \/ ~live.enabled[a]
        \/ ~gateway[a].ready
        \/ live.pc = "trades" /\ a \in live.todo
        \/ Coming(a, t)

\* Before the list of trades is asked for, nothing is owed.
Early == {"down", "waiting", "positions", "orders", "seed"}

TradesAreAccounted ==
    live.pc \notin Early =>
        \A t \in Trades : broker[t[1]].traded >= t[2] => Accounted(t)

TradesInv ==
    /\ live.pc \notin {"down", "waiting"} => FillsAreKnown(live)
    /\ live.pc # "trades" => live.recovered = {}
    /\ TradesAreAccounted

LEMMA TradeParts ==
    ASSUME TypeOK, NEW t \in Trades
    PROVE  t[1] \in Orders /\ t[2] \in Nat /\ AccountOf(t[1]) \in Accounts
  BY TradesType, OwnersAccount

\* A fill record stays, and with it what it covers.
LEMMA CoverStays ==
    ASSUME config' = config, NEW fills, NEW more, fills \subseteq more, NEW t,
           recovered_trade_is_covered_by_known_aggregate(fills, t)
    PROVE  recovered_trade_is_covered_by_known_aggregate(more, t)'
<1>1. \A u : Second(u)' = Second(u)
  BY DEF Second
<1> QED
  BY <1>1 DEF recovered_trade_is_covered_by_known_aggregate

\* What keeps a trade accounted for: nothing is forgotten, nothing comes back,
\* and what was coming still comes or was told of.
LEMMA AccountedStays ==
    ASSUME TypeOK, config' = config, NEW t \in Trades, Accounted(t),
           NEW a, a = AccountOf(t[1]),
           Remembered(t) => Remembered(t)', live.closed \subseteq live'.closed,
           live.failed => live'.failed, live'.enabled[a] => live.enabled[a],
           gateway'[a].ready => gateway[a].ready,
           live.pc = "trades" /\ a \in live.todo => live'.pc = "trades" /\ a \in live'.todo,
           Coming(a, t) => Coming(a, t)' \/ Remembered(t)'
    PROVE  Accounted(t)'
<1>1. AccountOf(t[1])' = a
  BY DEF AccountOf
<1>2. CASE recovered_trade_is_covered_by_known_aggregate(live.closed, t)
  <2>1. recovered_trade_is_covered_by_known_aggregate(live.closed, t)'
    BY <1>2, CoverStays
  <2> QED
    BY <2>1 DEF Accounted
<1>3. CASE Remembered(t)
  BY <1>3 DEF Accounted
<1>4. CASE Coming(a, t)
  BY <1>1, <1>4 DEF Accounted
<1>5. CASE live.failed \/ ~live.enabled[a] \/ ~gateway[a].ready \/ (live.pc = "trades" /\ a \in live.todo)
  BY <1>1, <1>5 DEF Accounted
<1> QED
  BY <1>2, <1>3, <1>4, <1>5 DEF Accounted

\* Steps that remember what they remembered, close no order and query no
\* inventory: what the fill records say stays true.
LEMMA FillsStay ==
    ASSUME TypeOK, FillsAreKnown(live), config' = config,
           live'.closed = live.closed, live'.inventory.fills = live.inventory.fills,
           live'.recorded = live.recorded,
           \A t \in Trades : Remembered(t) => Remembered(t)'
    PROVE  FillsAreKnown(live)'
<1>1. PICK closed, fills : closed = live.closed /\ fills = live.inventory.fills
  OBVIOUS
<1>2. ASSUME NEW t PROVE Known(fills, t)' = Known(fills, t)
  BY DEF Known, recovered_trade_is_covered_by_known_aggregate, Second, build_known_recovered_trade_keys
<1>3. ASSUME NEW t \in Trades
      PROVE  /\ t \in build_known_recovered_trade_keys(closed) => Remembered(t)
             /\ Known(fills, t) => t \in live.recorded
  BY <1>1 DEF FillsAreKnown, Remembered
<1>4. live'.closed = closed /\ live'.inventory.fills = fills
  BY <1>1
<1> SUFFICES ASSUME NEW t \in Trades
             PROVE  /\ t \in build_known_recovered_trade_keys(closed) => Remembered(t)'
                    /\ Known(fills, t)' => t \in live'.recorded
  BY <1>4 DEF FillsAreKnown, Remembered, build_known_recovered_trade_keys, Known,
              recovered_trade_is_covered_by_known_aggregate, Second
<1> QED
  BY <1>2, <1>3

LEMMA NothingOwed ==
    ASSUME live'.pc = "down" \/ live'.pc = "waiting", live'.recovered = {}
    PROVE  TradesInv'
  BY DEF TradesInv, TradesAreAccounted, Early

LEMMA NoProcessOwes ==
    ASSUME live' = NoProcess
    PROVE  TradesInv'
  BY NothingOwed DEF NoProcess

\* The process's own steps that tell nobody of anything and leave the sessions
\* alone: they lead to a place where nothing is owed yet, to one where nobody is
\* owed, or on from one where all was accounted for.
LEMMA TradesStay ==
    ASSUME TypeOK, TradesInv, config' = config, broker' = broker, gateway' = gateway,
           live.pc \notin {"down", "waiting"}, live'.pc # "trades" => live.pc # "trades",
           live'.closed = live.closed, live'.inventory.fills = live.inventory.fills,
           live'.recorded = live.recorded, live'.recovered = live.recovered,
           live'.memory.seen = live.memory.seen,
           \/ live'.pc \in Early
           \/ live'.failed
           \/ \A a \in Accounts : ~live'.enabled[a]
           \/ live'.pc = "trades" /\ live'.todo = Accounts
           \/ /\ live.pc \notin Early /\ live.pc # "trades"
              /\ live'.failed = live.failed
              /\ \A a \in Accounts : live'.enabled[a] => live.enabled[a]
    PROVE  TradesInv'
<1>1. \A t \in Trades : Remembered(t) => Remembered(t)'
  BY DEF Remembered
<1>2. FillsAreKnown(live)'
  BY <1>1, FillsStay DEF TradesInv
<1>3. live'.pc # "trades" => live'.recovered = {}
  BY DEF TradesInv
<1>4. ASSUME live'.pc \notin Early, NEW t \in Trades, broker'[t[1]].traded >= t[2]
      PROVE  Accounted(t)'
  <2>1. PICK a \in Accounts : a = AccountOf(t[1])
    BY TradeParts
  <2>2. AccountOf(t[1])' = a
    BY <2>1 DEF AccountOf
  <2>3. CASE live'.failed \/ ~live'.enabled[a] \/ (live'.pc = "trades" /\ live'.todo = Accounts)
    BY <2>2, <2>3 DEF Accounted
  <2>4. CASE /\ live.pc \notin Early /\ live.pc # "trades" /\ live'.failed = live.failed
             /\ live'.enabled[a] => live.enabled[a]
    <3>1. Accounted(t)
      BY <1>4, <2>4 DEF TradesInv, TradesAreAccounted
    <3>2. Coming(a, t) => Coming(a, t)'
      BY DEF Coming
    <3> QED
      BY <1>1, <2>1, <2>4, <3>1, <3>2, AccountedStays
  <2> QED
    BY <1>4, <2>3, <2>4
<1> QED
  BY <1>2, <1>3, <1>4 DEF TradesInv, TradesAreAccounted

LEMMA InitTrades == Init => TradesInv
<1>1. ASSUME Init PROVE TradesInv
  BY <1>1 DEF Init, NoProcess, TradesInv, TradesAreAccounted, Early
<1> QED
  BY <1>1

\* A new report comes after those on their way; one of a trade is coming, if
\* the session is there to send it to.
LEMMA ReportComes ==
    ASSUME TypeOK, NEW a \in Accounts, NEW kind \in Kinds, NEW o \in Orders, NEW k \in Nat,
           Report(a, kind, o, k), NEW b \in Accounts, NEW t
    PROVE  /\ gateway'[b].ready = gateway[b].ready
           /\ Coming(b, t) => Coming(b, t)'
           /\ (b = a /\ gateway[a].ready /\ kind = "trade" /\ t[1] = o /\ t[2] = k) => Coming(b, t)'
<1>1. PICK new : new = [kind |-> kind, order |-> o, trade |-> k]
  OBVIOUS
<1>2. PICK r : r = Append(gateway[a].reports, new)
  OBVIOUS
<1>3. gateway' = IF gateway[a].ready THEN [gateway EXCEPT ![a].reports = r] ELSE gateway
  BY <1>1, <1>2 DEF Report, TypeOK, Session
<1>4. /\ gateway[a] \in Session /\ gateway[b] \in Session
      /\ gateway \in [Accounts -> Session]
  BY DEF TypeOK
<1>5. CASE ~gateway[a].ready
  <2>1. gateway' = gateway
    BY <1>3, <1>5
  <2> QED
    BY <1>5, <2>1 DEF Coming
<1>6. CASE gateway[a].ready
  <2>1. gateway' = [gateway EXCEPT ![a].reports = r]
    BY <1>3, <1>6
  <2>2. gateway'[b].ready = gateway[b].ready /\ gateway'[b].events = gateway[b].events
    BY <1>4, <2>1 DEF Session
  <2>3. gateway'[b].reports = IF b = a THEN r ELSE gateway[b].reports
    BY <1>4, <2>1 DEF Session
  <2>4. gateway[a].reports \in Seq(OnItsWay) /\ new \in OnItsWay
    BY <1>1, <1>4 DEF Session, OnItsWay
  <2>5. PICK n \in Nat : n = Len(gateway[a].reports)
    BY <2>4
  <2>6. /\ DOMAIN gateway[a].reports = 1 .. n /\ DOMAIN r = 1 .. n + 1 /\ r[n + 1] = new
        /\ \A i \in 1 .. n : r[i] = gateway[a].reports[i]
    BY <1>2, <2>4, <2>5
  <2>7. ASSUME Coming(b, t) PROVE Coming(b, t)'
    <3>1. CASE \E i \in DOMAIN gateway[b].events : IsOf(gateway[b].events[i], t)
      BY <2>2, <3>1 DEF Coming, IsOf
    <3>2. ASSUME NEW i \in DOMAIN gateway[b].reports, IsOf(gateway[b].reports[i], t)
          PROVE  Coming(b, t)'
      <4>1. i \in DOMAIN gateway'[b].reports /\ gateway'[b].reports[i] = gateway[b].reports[i]
        BY <2>3, <2>6, <3>2
      <4> QED
        BY <3>2, <4>1 DEF Coming, IsOf
    <3> QED
      BY <2>7, <3>1, <3>2 DEF Coming
  <2>8. ASSUME b = a, kind = "trade", t[1] = o, t[2] = k PROVE Coming(b, t)'
    <3>1. n + 1 \in DOMAIN gateway'[b].reports /\ gateway'[b].reports[n + 1] = new
      BY <2>3, <2>6, <2>8
    <3> QED
      BY <1>1, <2>8, <3>1 DEF Coming, IsOf
  <2> QED
    BY <2>2, <2>7, <2>8
<1>7. gateway[a].ready \in BOOLEAN
  BY <1>4 DEF Session
<1> QED
  BY <1>5, <1>6, <1>7

\* The broker's steps and a submission: a report is on its way for each new
\* trade, or the session is not there.
LEMMA BrokerOwes ==
    ASSUME TypeOK, TradesInv, NEW o \in Orders, Trade(o) \/ Cancel(o) \/ submit_order(o)
    PROVE  TradesInv'
<1>1. config' = config /\ AccountOf(o) \in Accounts
  BY OwnersAccount DEF Trade, Cancel, submit_order
<1>2. /\ live'.pc = live.pc /\ live'.closed = live.closed /\ live'.inventory = live.inventory
      /\ live'.recorded = live.recorded /\ live'.recovered = live.recovered
      /\ live'.memory.seen = live.memory.seen /\ live'.failed = live.failed
      /\ live'.enabled = live.enabled /\ live'.todo = live.todo
  <2>1. CASE live' = live
    BY <2>1
  <2>2. CASE live' = [live EXCEPT !.memory.orders = @ \union {o}]
    BY <2>2 DEF TypeOK, Process, Memory
  <2> QED
    BY <2>1, <2>2 DEF Trade, Cancel, submit_order
<1>3. PICK kind \in Kinds, k \in Nat :
          /\ Report(AccountOf(o), kind, o, k)
          /\ \A t \in Trades : broker'[t[1]].traded >= t[2] =>
                 \/ broker[t[1]].traded >= t[2]
                 \/ kind = "trade" /\ t[1] = o /\ t[2] = k
  <2>0. broker \in [Orders -> [state : {"unsent", "working", "done"}, traded : Nat]]
    BY DEF TypeOK
  <2>1. CASE Trade(o)
    <3>1. PICK k \in Nat : k = broker[o].traded + 1
      BY <2>0
    <3>2. /\ Report(AccountOf(o), "trade", o, k)
          /\ \A p \in Orders : broker'[p].traded = IF p = o THEN k ELSE broker[p].traded
      BY <2>0, <2>1, <3>1 DEF Trade
    <3>3. ASSUME NEW t \in Trades, broker'[t[1]].traded >= t[2], ~(broker[t[1]].traded >= t[2])
          PROVE  t[1] = o /\ t[2] = k
      <4>1. t[1] \in Orders /\ t[2] \in Nat /\ broker[t[1]].traded \in Nat
        BY <2>0, TradeParts
      <4> QED
        BY <3>1, <3>2, <3>3, <4>1
    <3> QED
      BY <3>2, <3>3 DEF Kinds
  <2>2. CASE Cancel(o) \/ submit_order(o)
    <3>1. \A p \in Orders : broker'[p].traded = broker[p].traded
      BY <2>0, <2>2 DEF Cancel, submit_order
    <3>2. Report(AccountOf(o), "cancel", o, 0) \/ Report(AccountOf(o), "accepted", o, 0)
      BY <2>2 DEF Cancel, submit_order
    <3>3. \A t \in Trades : broker'[t[1]].traded >= t[2] => broker[t[1]].traded >= t[2]
      BY <3>1, TradeParts
    <3> QED
      BY <3>2, <3>3 DEF Kinds
  <2> QED
    BY <2>1, <2>2
<1>4. \A t \in Trades : Remembered(t) => Remembered(t)'
  BY <1>2 DEF Remembered
<1>5. live'.pc \notin {"down", "waiting"} => FillsAreKnown(live)'
  BY <1>1, <1>2, <1>4, FillsStay DEF TradesInv
<1>6. ASSUME live.pc \notin Early, NEW t \in Trades, broker'[t[1]].traded >= t[2]
      PROVE  Accounted(t)'
  <2>1. PICK a \in Accounts : a = AccountOf(t[1])
    BY TradeParts
  <2>2. AccountOf(t[1])' = a
    BY <1>1, <2>1 DEF AccountOf
  <2>3. PICK s \in Accounts : s = AccountOf(o)
    BY <1>1
  <2>4. /\ gateway'[a].ready = gateway[a].ready
        /\ Coming(a, t) => Coming(a, t)'
        /\ (a = s /\ gateway[s].ready /\ kind = "trade" /\ t[1] = o /\ t[2] = k) => Coming(a, t)'
    BY <1>3, <2>3, ReportComes
  <2>5. CASE broker[t[1]].traded >= t[2]
    <3>1. Accounted(t)
      BY <1>6, <2>5 DEF TradesInv, TradesAreAccounted
    <3> QED
      BY <1>1, <1>2, <1>4, <2>1, <2>4, <3>1, AccountedStays
  <2>6. CASE kind = "trade" /\ t[1] = o /\ t[2] = k
    <3>1. a = s
      BY <2>1, <2>3, <2>6
    <3>2. ~gateway'[a].ready \/ Coming(a, t)'
      BY <2>4, <2>6, <3>1
    <3> QED
      BY <2>2, <3>2 DEF Accounted
  <2> QED
    BY <1>3, <1>6, <2>5, <2>6
<1> QED
  BY <1>2, <1>5, <1>6 DEF TradesInv, TradesAreAccounted

\* A callback turns the first report into the last event.
LEMMA OnRtnComes ==
    ASSUME TypeOK, NEW a \in Accounts, OnRtn(a), NEW b \in Accounts, NEW t, Coming(b, t)
    PROVE  gateway'[b].ready = gateway[b].ready /\ Coming(b, t)'
<1>1. gateway[a] \in Session /\ gateway[b] \in Session /\ gateway \in [Accounts -> Session]
  BY DEF TypeOK
<1>2. PICK report \in OnItsWay : report = Head(gateway[a].reports)
  <2>1. gateway[a].reports \in Seq(OnItsWay) /\ gateway[a].reports # <<>>
    BY <1>1 DEF OnRtn, Session
  <2> QED
    BY <2>1
<1>3. \E event : /\ event.kind = report.kind /\ event.order = report.order /\ event.trade = report.trade
                 /\ gateway' = [gateway EXCEPT ![a].reports = Tail(@), ![a].events = Append(@, event)]
  BY <1>2 DEF OnRtn
<1>4. PICK event : /\ event.kind = report.kind /\ event.order = report.order /\ event.trade = report.trade
                   /\ gateway' = [gateway EXCEPT ![a].reports = Tail(@), ![a].events = Append(@, event)]
  BY <1>3
<1>5. PICK r, e : r = Tail(gateway[a].reports) /\ e = Append(gateway[a].events, event)
  OBVIOUS
<1>6. /\ gateway'[b].ready = gateway[b].ready
      /\ gateway'[b].reports = IF b = a THEN r ELSE gateway[b].reports
      /\ gateway'[b].events = IF b = a THEN e ELSE gateway[b].events
  BY <1>1, <1>4, <1>5 DEF Session
<1>7. CASE b # a
  BY <1>6, <1>7 DEF Coming, IsOf
<1>8. CASE b = a
  <2>1. PICK n \in Nat, m \in Nat : n = Len(gateway[a].reports) /\ m = Len(gateway[a].events)
    BY <1>1 DEF Session
  <2>2. n > 0 /\ gateway[a].reports[1] = report
    BY <1>1, <1>2, <2>1 DEF OnRtn, Session
  <2>3. /\ DOMAIN gateway[a].reports = 1 .. n /\ DOMAIN r = 1 .. n - 1
        /\ \A i \in 1 .. n - 1 : r[i] = gateway[a].reports[i + 1]
    BY <1>1, <1>5, <2>1, <2>2 DEF Session
  <2>4. /\ DOMAIN gateway[a].events = 1 .. m /\ DOMAIN e = 1 .. m + 1 /\ e[m + 1] = event
        /\ \A i \in 1 .. m : e[i] = gateway[a].events[i]
    BY <1>1, <1>5, <2>1 DEF Session
  <2>5. gateway'[a].reports = r /\ gateway'[a].events = e
    BY <1>6, <1>8
  <2>6. ASSUME NEW i \in 1 .. n, IsOf(gateway[a].reports[i], t) PROVE Coming(a, t)'
    <3>1. CASE i = 1
      <4>1. m + 1 \in DOMAIN e /\ IsOf(e[m + 1], t)
        BY <1>4, <2>2, <2>4, <2>6, <3>1 DEF IsOf
      <4> QED
        BY <2>5, <4>1 DEF Coming, IsOf
    <3>2. CASE i # 1
      <4>1. i - 1 \in 1 .. n - 1 /\ i - 1 + 1 = i
        BY <3>2
      <4>2. i - 1 \in DOMAIN r /\ IsOf(r[i - 1], t)
        BY <2>3, <2>6, <4>1
      <4> QED
        BY <2>5, <4>2 DEF Coming, IsOf
    <3> QED
      BY <3>1, <3>2
  <2>7. ASSUME NEW i \in 1 .. m, IsOf(gateway[a].events[i], t) PROVE Coming(a, t)'
    <3>1. i \in DOMAIN e /\ IsOf(e[i], t)
      BY <2>4, <2>7
    <3> QED
      BY <2>5, <3>1 DEF Coming, IsOf
  <2> QED
    BY <1>6, <1>8, <2>3, <2>4, <2>6, <2>7 DEF Coming
<1> QED
  BY <1>6, <1>7, <1>8

LEMMA SessionOwes ==
    ASSUME TypeOK, TradesInv, NEW a \in Accounts, OnRtn(a) \/ Drop(a)
    PROVE  TradesInv'
<1>1. config' = config /\ broker' = broker /\ live' = live
  BY DEF OnRtn, Drop
<1>2. \A t \in Trades : Remembered(t) => Remembered(t)'
  BY <1>1 DEF Remembered
<1>3. live'.pc \notin {"down", "waiting"} => FillsAreKnown(live)'
  BY <1>1, <1>2, FillsStay DEF TradesInv
<1>4. ASSUME live.pc \notin Early, NEW t \in Trades, broker[t[1]].traded >= t[2]
      PROVE  Accounted(t)'
  <2>1. PICK b \in Accounts : b = AccountOf(t[1])
    BY TradeParts
  <2>2. Accounted(t)
    BY <1>4 DEF TradesInv, TradesAreAccounted
  <2>3. /\ gateway'[b].ready => gateway[b].ready
        /\ Coming(b, t) => Coming(b, t)' \/ ~gateway'[b].ready
    <3>1. CASE OnRtn(a)
      <4>1. Coming(b, t) => Coming(b, t)'
        BY <3>1, OnRtnComes
      <4>2. gateway'[b].ready = gateway[b].ready
        BY <3>1 DEF OnRtn, TypeOK, Session
      <4> QED
        BY <4>1, <4>2
    <3>2. CASE Drop(a)
      <4>1. PICK dropped : dropped = [gateway[a] EXCEPT !.ready = FALSE, !.reports = <<>>]
        OBVIOUS
      <4>2. gateway' = [gateway EXCEPT ![a] = dropped] /\ dropped.ready = FALSE
        BY <3>2, <4>1 DEF Drop, TypeOK, Session
      <4>3. gateway'[b] = IF b = a THEN dropped ELSE gateway[b]
        BY <4>2 DEF TypeOK
      <4>4. CASE b = a
        BY <4>2, <4>3, <4>4
      <4>5. CASE b # a
        BY <4>3, <4>5 DEF Coming, IsOf
      <4> QED
        BY <4>4, <4>5
    <3> QED
      BY <3>1, <3>2
  <2>4. CASE ~gateway'[b].ready
    BY <1>1, <2>1, <2>4 DEF Accounted, AccountOf
  <2>5. CASE gateway'[b].ready
    BY <1>1, <1>2, <2>1, <2>2, <2>3, <2>5, AccountedStays
  <2> QED
    BY <2>4, <2>5
<1> QED
  BY <1>1, <1>3, <1>4 DEF TradesInv, TradesAreAccounted

\* What is in the files when the process starts is on record.
LEMMA ReadStoresOwes ==
    ASSUME TypeOK, TradesInv, ReadStores
    PROVE  TradesInv'
<1>1. PICK store \in Inventory : store = apply_manual_inventory_adjustments(files.inventory)
  BY AdjustedTypes DEF TypeOK
<1>2. PICK recorded : recorded = {t \in Trades : Known(store.fills \union live.closed, t)}
  OBVIOUS
<1>3. PICK attached : attached = seed_attachment_telemetry_from_inventory_store(store)
  OBVIOUS
<1>4. live' = [live EXCEPT !.pc = "positions", !.todo = Accounts, !.inventory = store,
                  !.bindings = files.state.orders, !.memory = files.state,
                  !.attached = attached, !.recorded = recorded]
  BY <1>1, <1>2, <1>3 DEF ReadStores
<1>5. config' = config /\ live.pc = "waiting"
  BY DEF ReadStores
<1>6. /\ live'.pc = "positions" /\ live'.inventory = store /\ live'.recorded = recorded
      /\ live'.closed = live.closed /\ live'.recovered = live.recovered
  BY <1>4 DEF TypeOK, Process
<1>7. PICK closed, fills : closed = live.closed /\ fills = store.fills
  OBVIOUS
<1>8. ASSUME NEW t \in Trades
      PROVE  /\ t \in build_known_recovered_trade_keys(closed) => t \in recorded
             /\ Known(fills, t) => t \in recorded
  BY <1>2, <1>7 DEF Known, build_known_recovered_trade_keys, recovered_trade_is_covered_by_known_aggregate
<1>9. ASSUME NEW t PROVE Known(fills, t)' = Known(fills, t)
  BY <1>5 DEF Known, recovered_trade_is_covered_by_known_aggregate, Second, build_known_recovered_trade_keys
<1>10. live'.closed = closed /\ live'.inventory.fills = fills
  BY <1>6, <1>7
<1>11. FillsAreKnown(live)'
  <2> SUFFICES ASSUME NEW t \in Trades
               PROVE  /\ t \in build_known_recovered_trade_keys(closed) => t \in live'.recorded
                      /\ Known(fills, t)' => t \in live'.recorded
    BY <1>10 DEF FillsAreKnown, build_known_recovered_trade_keys, Known,
                 recovered_trade_is_covered_by_known_aggregate, Second
  <2> QED
    BY <1>6, <1>8, <1>9
<1> QED
  BY <1>5, <1>6, <1>11 DEF TradesInv, TradesAreAccounted, Early

\* What a list of trades leaves out was known: from the inventory file, which
\* is on record, from a record of the process, or from an aggregate of it.
LEMMA KnownIsAccounted ==
    ASSUME FillsAreKnown(live), NEW t \in Trades, Known(live.inventory.fills \union live.closed, t)
    PROVE  Remembered(t) \/ recovered_trade_is_covered_by_known_aggregate(live.closed, t)
<1>1. CASE t \in build_known_recovered_trade_keys(live.inventory.fills \union live.closed)
  <2>1. \/ t \in build_known_recovered_trade_keys(live.inventory.fills)
        \/ t \in build_known_recovered_trade_keys(live.closed)
    BY <1>1 DEF build_known_recovered_trade_keys
  <2> QED
    BY <2>1 DEF FillsAreKnown, Known, Remembered
<1>2. CASE recovered_trade_is_covered_by_known_aggregate(live.inventory.fills \union live.closed, t)
  <2>1. \/ recovered_trade_is_covered_by_known_aggregate(live.inventory.fills, t)
        \/ recovered_trade_is_covered_by_known_aggregate(live.closed, t)
    BY <1>2 DEF recovered_trade_is_covered_by_known_aggregate
  <2> QED
    BY <2>1 DEF FillsAreKnown, Known, Remembered
<1> QED
  BY <1>1, <1>2 DEF Known

LEMMA RecoverOwes ==
    ASSUME TypeOK, TradesInv, recover_live_trades_from_broker
    PROVE  TradesInv'
<1>0. live \in Process
  BY DEF TypeOK
<1>1. PICK a : a = NextAccount
  OBVIOUS
<1>2. PICK missed, fills : missed = Missed(a) /\ fills = {Fill(t[1], t[2], 1) : t \in Missed(a)}
  OBVIOUS
<1>3. /\ config' = config /\ broker' = broker /\ gateway' = gateway /\ live.pc = "trades"
      /\ \/ live' = [live EXCEPT !.todo = live.todo \ {a}, !.failed = TRUE]
         \/ live' = [live EXCEPT !.todo = live.todo \ {a},
                        !.recovered = live.recovered \union missed,
                        !.closed = live.closed \union fills]
  BY <1>1, <1>2, RecoverEffect
<1>4. FillsAreKnown(live)
  BY <1>3 DEF TradesInv
<1>5. CASE live' = [live EXCEPT !.todo = live.todo \ {a}, !.failed = TRUE]
  <2>1. /\ live'.pc = live.pc /\ live'.closed = live.closed /\ live'.inventory = live.inventory
        /\ live'.recorded = live.recorded /\ live'.recovered = live.recovered
        /\ live'.memory = live.memory /\ live'.failed = TRUE
    BY <1>0, <1>5 DEF Process
  <2> QED
    BY <1>3, <2>1, TradesStay
<1>6. CASE live' = [live EXCEPT !.todo = live.todo \ {a},
                        !.recovered = live.recovered \union missed,
                        !.closed = live.closed \union fills]
  <2>1. /\ live'.pc = live.pc /\ live'.closed = live.closed \union fills
        /\ live'.inventory = live.inventory /\ live'.recorded = live.recorded
        /\ live'.recovered = live.recovered \union missed /\ live'.memory = live.memory
        /\ live'.failed = live.failed /\ live'.enabled = live.enabled /\ live'.todo = live.todo \ {a}
    BY <1>0, <1>6 DEF Process
  <2>2. \A t \in Trades : Remembered(t) => Remembered(t)'
    BY <2>1 DEF Remembered
  <2>3. missed \subseteq Trades
    BY <1>2 DEF Missed
  <2>4. \A t \in missed : Remembered(t)'
    BY <2>1 DEF Remembered
  <2>5. \A t \in build_known_recovered_trade_keys(fills) : t \in missed
    <3> SUFFICES ASSUME NEW r \in fills PROVE <<r.order, r.trade>> \in missed
      BY DEF build_known_recovered_trade_keys
    <3>1. PICK u \in missed : r = Fill(u[1], u[2], 1)
      BY <1>2
    <3>2. r.order = u[1] /\ r.trade = u[2]
      BY <3>1 DEF Fill
    <3>3. PICK o \in Orders, k \in Nat : u = <<o, k>>
      BY <2>3, <3>1, TradesType
    <3> QED
      BY <3>1, <3>2, <3>3
  <2>6. PICK closed, store : closed = live.closed /\ store = live.inventory.fills
    OBVIOUS
  <2>7. ASSUME NEW t PROVE Known(store, t)' = Known(store, t)
    BY <1>3 DEF Known, recovered_trade_is_covered_by_known_aggregate, Second, build_known_recovered_trade_keys
  <2>8. FillsAreKnown(live)'
    <3>1. live'.closed = closed \union fills /\ live'.inventory.fills = store
      BY <2>1, <2>6
    <3> SUFFICES ASSUME NEW t \in Trades
                 PROVE  /\ t \in build_known_recovered_trade_keys(closed \union fills) => Remembered(t)'
                        /\ Known(store, t)' => t \in live'.recorded
      BY <3>1 DEF FillsAreKnown, Remembered, build_known_recovered_trade_keys, Known,
                  recovered_trade_is_covered_by_known_aggregate, Second
    <3>2. t \in build_known_recovered_trade_keys(closed) => Remembered(t)'
      BY <1>4, <2>2, <2>6 DEF FillsAreKnown, Remembered
    <3>3. t \in build_known_recovered_trade_keys(fills) => Remembered(t)'
      BY <2>4, <2>5
    <3>4. t \in build_known_recovered_trade_keys(closed \union fills) =>
              \/ t \in build_known_recovered_trade_keys(closed)
              \/ t \in build_known_recovered_trade_keys(fills)
      BY DEF build_known_recovered_trade_keys
    <3>5. Known(store, t) => t \in live.recorded
      BY <1>4, <2>6 DEF FillsAreKnown
    <3> QED
      BY <2>1, <2>7, <3>2, <3>3, <3>4, <3>5
  <2>9. ASSUME NEW t \in Trades, broker[t[1]].traded >= t[2] PROVE Accounted(t)'
    <3>1. PICK b \in Accounts : b = AccountOf(t[1])
      BY TradeParts
    <3>2. CASE b = a
      <4>1. t \in missed \/ Known(live.inventory.fills \union live.closed, t)
        <5>1. t[1] \in OrdersOf(a) /\ t[2] <= broker[t[1]].traded
          <6>1. t[2] \in Nat /\ broker[t[1]].traded \in Nat /\ t[1] \in Orders
            BY TradeParts DEF TypeOK
          <6> QED
            BY <2>9, <3>1, <3>2, <6>1 DEF OrdersOf
        <5> QED
          BY <1>2, <5>1 DEF Missed
      <4>2. CASE t \in missed
        BY <2>4, <4>2 DEF Accounted
      <4>3. CASE Known(live.inventory.fills \union live.closed, t)
        <5>1. Remembered(t) \/ recovered_trade_is_covered_by_known_aggregate(live.closed, t)
          BY <1>4, <4>3, KnownIsAccounted
        <5>2. Accounted(t)
          BY <5>1 DEF Accounted
        <5>3. CASE Remembered(t)
          BY <2>2, <5>3 DEF Accounted
        <5>4. CASE recovered_trade_is_covered_by_known_aggregate(live.closed, t)
          <6>1. recovered_trade_is_covered_by_known_aggregate(live.closed, t)'
            BY <1>3, <2>1, <5>4, CoverStays
          <6> QED
            BY <6>1 DEF Accounted
        <5> QED
          BY <5>1, <5>3, <5>4
      <4> QED
        BY <4>1, <4>2, <4>3
    <3>3. CASE b # a
      <4>1. Accounted(t)
        BY <1>3, <2>9 DEF TradesInv, TradesAreAccounted, Early
      <4>2. Coming(b, t) => Coming(b, t)'
        BY <1>3 DEF Coming
      <4>3. live.pc = "trades" /\ b \in live.todo => live'.pc = "trades" /\ b \in live'.todo
        BY <2>1, <3>3
      <4> QED
        BY <1>3, <2>1, <2>2, <3>1, <4>1, <4>2, <4>3, AccountedStays
    <3> QED
      BY <3>2, <3>3
  <2> QED
    BY <1>3, <2>1, <2>8, <2>9 DEF TradesInv, TradesAreAccounted
<1> QED
  BY <1>3, <1>5, <1>6

\* The replay tells of what was recovered, the drain of what was queued.
LEMMA ReplayOwes ==
    ASSUME TypeOK, TradesInv, replay_recovered_live_trades_to_strategies
    PROVE  TradesInv'
<1>0. live \in Process
  BY DEF TypeOK
<1>1. PICK memory : memory = Told(live.memory, live.recovered)
  OBVIOUS
<1>2. \E place \in {"telemetry", "ticks"} : \E replays :
          live' = [live EXCEPT !.pc = place, !.starting = FALSE, !.recovered = {},
                               !.memory = memory, !.replays = replays]
  BY <1>0, <1>1 DEF replay_recovered_live_trades_to_strategies, Process
<1>3. /\ live'.pc \in {"telemetry", "ticks"} /\ live'.recovered = {} /\ live'.memory = memory
      /\ live'.closed = live.closed /\ live'.inventory = live.inventory
      /\ live'.recorded = live.recorded /\ live'.failed = live.failed /\ live'.enabled = live.enabled
  BY <1>0, <1>2 DEF Process
<1>4. memory.seen = live.memory.seen \union live.recovered
  BY <1>0, <1>1 DEF Told, Process, Memory
<1>5. config' = config /\ broker' = broker /\ gateway' = gateway /\ live.pc = "trades" /\ live.todo = {}
  BY DEF replay_recovered_live_trades_to_strategies
<1>6. \A t \in Trades : Remembered(t) => Remembered(t)'
  BY <1>3, <1>4 DEF Remembered
<1>7. FillsAreKnown(live)'
  BY <1>3, <1>5, <1>6, FillsStay DEF TradesInv
<1>8. ASSUME NEW t \in Trades, broker[t[1]].traded >= t[2] PROVE Accounted(t)'
  <2>1. PICK b \in Accounts : b = AccountOf(t[1])
    BY TradeParts
  <2>2. Accounted(t)
    BY <1>5, <1>8 DEF TradesInv, TradesAreAccounted, Early
  <2>3. Coming(b, t) => Coming(b, t)'
    BY <1>5 DEF Coming
  <2> QED
    BY <1>3, <1>5, <1>6, <2>1, <2>2, <2>3, AccountedStays
<1> QED
  BY <1>3, <1>5, <1>7, <1>8 DEF TradesInv, TradesAreAccounted

LEMMA DrainOwes ==
    ASSUME TypeOK, BooksAgree(live), TradesInv, drain_order_events
    PROVE  TradesInv'
<1>1. config' = config /\ broker' = broker /\ live.pc = "ticks"
  BY DEF drain_order_events
<1>2. FillsAreKnown(live)
  BY <1>1 DEF TradesInv
<1>3. PICK p \in ToldFrom(live) :
             /\ live' = [p EXCEPT !.pc = "telemetry"]
             /\ \A t \in Trades : \A a \in Accounts : \A i \in DOMAIN gateway[a].events :
                    IsOf(gateway[a].events[i], t) => t \in p.memory.seen
  BY <1>2, DrainTells
<1>4. /\ p \in Process /\ Untouched(live, p) /\ FillsAreKnown(p)
      /\ live.memory.seen \subseteq p.memory.seen
  BY <1>3 DEF ToldFrom, DrainedFrom
<1>5. /\ live'.pc = "telemetry" /\ live'.recovered = p.recovered /\ live'.memory = p.memory
      /\ live'.closed = p.closed /\ live'.inventory = p.inventory
      /\ live'.recorded = p.recorded /\ live'.failed = p.failed /\ live'.enabled = p.enabled
  BY <1>3, <1>4 DEF Process
<1>6. /\ p.recovered = live.recovered /\ p.recorded = live.recorded /\ p.failed = live.failed
      /\ p.enabled = live.enabled /\ live.closed \subseteq p.closed
  BY <1>4 DEF Untouched
<1>7. FillsAreKnown(live)'
  BY <1>1, <1>4, <1>5 DEF FillsAreKnown, build_known_recovered_trade_keys, Known,
                          recovered_trade_is_covered_by_known_aggregate, Second
<1>8. \A t \in Trades : Remembered(t) => Remembered(t)'
  BY <1>4, <1>5, <1>6 DEF Remembered
<1>9. \A b \in Accounts : gateway'[b].ready = gateway[b].ready /\ gateway'[b].reports = gateway[b].reports
  BY DEF drain_order_events, TypeOK, Session
<1>10. ASSUME NEW t \in Trades, broker[t[1]].traded >= t[2] PROVE Accounted(t)'
  <2>1. PICK b \in Accounts : b = AccountOf(t[1])
    BY TradeParts
  <2>2. Accounted(t)
    BY <1>1, <1>10 DEF TradesInv, TradesAreAccounted, Early
  <2>3. Coming(b, t) => Coming(b, t)' \/ Remembered(t)'
    BY <1>3, <1>5, <1>9 DEF Coming, IsOf, Remembered
  <2> QED
    BY <1>1, <1>5, <1>6, <1>8, <1>9, <2>1, <2>2, <2>3, AccountedStays
<1>11. live'.recovered = {}
  BY <1>1, <1>5, <1>6 DEF TradesInv
<1> QED
  BY <1>1, <1>5, <1>7, <1>10, <1>11 DEF TradesInv, TradesAreAccounted

\* An answer that agrees, or none, leads on with the questions; one that does
\* not pauses every account of a process that was running.
LEMMA HydrateOwes ==
    ASSUME TypeOK, TradesInv, hydrate_live_positions_from_broker
    PROVE  TradesInv'
<1>0. live \in Process
  BY DEF TypeOK
<1>1. PICK a : a = NextAccount
  OBVIOUS
<1>2. /\ live.pc = "positions" /\ config' = config /\ broker' = broker
      /\ \/ Unanswered(a) /\ UNCHANGED sessionVars
         \/ \E attached : Agreed(a, attached) /\ UNCHANGED sessionVars
         \/ Fail(Differing(a))
  BY <1>1, HydrateEffect
<1>3. CASE Unanswered(a) /\ UNCHANGED sessionVars
  <2>1. PICK todo, books : live' = [live EXCEPT !.todo = todo, !.books = books]
    BY <1>3 DEF Unanswered
  <2>2. /\ live'.pc = live.pc /\ live'.closed = live.closed /\ live'.inventory = live.inventory
        /\ live'.recorded = live.recorded /\ live'.recovered = live.recovered
        /\ live'.memory = live.memory
    BY <1>0, <2>1 DEF Process
  <2> QED
    BY <1>2, <1>3, <2>2, TradesStay DEF sessionVars, Early
<1>4. ASSUME NEW attached, Agreed(a, attached), UNCHANGED sessionVars PROVE TradesInv'
  <2>1. PICK lots, books, todo : live' = [live EXCEPT !.lots = lots, !.books = books,
                                             !.todo = todo, !.attached = attached]
    BY <1>4 DEF Agreed
  <2>2. /\ live'.pc = live.pc /\ live'.closed = live.closed /\ live'.inventory = live.inventory
        /\ live'.recorded = live.recorded /\ live'.recovered = live.recovered
        /\ live'.memory = live.memory
    BY <1>0, <2>1 DEF Process
  <2> QED
    BY <1>2, <1>4, <2>2, TradesStay DEF sessionVars, Early
<1>5. CASE Fail(Differing(a))
  <2>1. live.starting \in BOOLEAN
    BY <1>0 DEF Process
  <2>2. CASE live.starting
    BY <1>5, <2>2, NoProcessOwes DEF Fail
  <2>3. CASE ~live.starting
    <3>1. PICK off : off = [b \in Accounts |-> FALSE]
      OBVIOUS
    <3>2. PICK lots, books : Differing(a) = [live EXCEPT !.lots = lots, !.books = books]
      BY DEF Differing
    <3>3. live' = [Differing(a) EXCEPT !.pc = "ticks", !.todo = {}, !.enabled = off] /\ gateway' = gateway
      BY <1>5, <2>3, <3>1 DEF Fail, sessionVars
    <3>4. /\ live'.pc = "ticks" /\ live'.closed = live.closed /\ live'.inventory = live.inventory
          /\ live'.recorded = live.recorded /\ live'.recovered = live.recovered
          /\ live'.memory = live.memory /\ live'.enabled = off
      BY <1>0, <3>2, <3>3 DEF Process
    <3>5. \A b \in Accounts : ~live'.enabled[b]
      BY <3>1, <3>4
    <3> QED
      BY <1>2, <3>3, <3>4, <3>5, TradesStay
  <2> QED
    BY <2>1, <2>2, <2>3
<1> QED
  BY <1>2, <1>3, <1>4, <1>5

\* A reconnect pauses what did not come back, or has everything asked again.
LEMMA ReconnectOwes ==
    ASSUME TypeOK, TradesInv, ensure_ready
    PROVE  TradesInv'
<1>0. live \in Process
  BY DEF TypeOK
<1>1. PICK enabled \in [Accounts -> BOOLEAN] : Reconnected(enabled)
  BY EnsureReadyEffect
<1>2. live.pc = "top" /\ config' = config /\ broker' = broker
  BY DEF ensure_ready
<1>3. CASE /\ live' = [live EXCEPT !.pc = "ticks", !.todo = {}, !.enabled = enabled]
           /\ \A a \in Accounts : enabled[a] => live.enabled[a]
           /\ UNCHANGED gateway
  <2>1. /\ live'.pc = "ticks" /\ live'.closed = live.closed /\ live'.inventory = live.inventory
        /\ live'.recorded = live.recorded /\ live'.recovered = live.recovered
        /\ live'.memory = live.memory /\ live'.failed = live.failed /\ live'.enabled = enabled
    BY <1>0, <1>3 DEF Process
  <2> QED
    BY <1>2, <1>3, <2>1, TradesStay DEF Early
<1>4. CASE live' = [live EXCEPT !.pc = "positions", !.todo = Accounts, !.enabled = enabled]
  <2>1. /\ live'.pc = "positions" /\ live'.closed = live.closed /\ live'.inventory = live.inventory
        /\ live'.recorded = live.recorded /\ live'.recovered = live.recovered
        /\ live'.memory = live.memory
    BY <1>0, <1>4 DEF Process
  <2>2. \A t \in Trades : Remembered(t) => Remembered(t)'
    BY <2>1 DEF Remembered
  <2>3. FillsAreKnown(live)'
    BY <1>2, <2>1, <2>2, FillsStay DEF TradesInv
  <2> QED
    BY <1>2, <2>1, <2>3 DEF TradesInv, TradesAreAccounted, Early
<1> QED
  BY <1>1, <1>3, <1>4 DEF Reconnected

LEMMA TradesStep == BooksInv /\ TradesInv /\ [Next]_vars => TradesInv'
<1> SUFFICES ASSUME BooksInv, TradesInv, [Next]_vars PROVE TradesInv'
  OBVIOUS
<1>0. TypeOK /\ live \in Process /\ BooksAgree(live)
  BY DEF BooksInv, TypeOK
<1>1. ASSUME NEW o \in Orders, Trade(o) \/ Cancel(o) \/ submit_order(o) PROVE TradesInv'
  BY <1>0, <1>1, BrokerOwes
<1>2. ASSUME NEW a \in Accounts, OnRtn(a) \/ Drop(a) PROVE TradesInv'
  BY <1>0, <1>2, SessionOwes
<1>3. CASE Start
  <2>1. live'.pc = "waiting" /\ live'.recovered = {}
    BY <1>3, NothingTypes DEF Start, Process, NoProcess
  <2> QED
    BY <2>1, NothingOwed
<1>4. CASE ReadStores
  BY <1>0, <1>4, ReadStoresOwes
<1>5. CASE hydrate_live_positions_from_broker
  BY <1>0, <1>5, HydrateOwes
<1>6. CASE query_working_orders
  <2>1. PICK todo, opened, answer :
            \/ live' = [live EXCEPT !.todo = todo]
            \/ live' = [live EXCEPT !.pc = "seed", !.todo = todo, !.opened = opened, !.answer = answer]
    BY <1>6 DEF query_working_orders
  <2>2. config' = config /\ broker' = broker /\ gateway' = gateway /\ live.pc = "orders"
    BY <1>6 DEF query_working_orders
  <2>3. /\ live'.pc \in {"orders", "seed"} /\ live'.closed = live.closed /\ live'.inventory = live.inventory
        /\ live'.recorded = live.recorded /\ live'.recovered = live.recovered
        /\ live'.memory = live.memory
    BY <1>0, <2>1, <2>2 DEF Process
  <2> QED
    BY <1>0, <2>2, <2>3, TradesStay DEF Early
<1>7. CASE hydrate_live_working_orders_from_broker
  <2>1. PICK opened : live' = [live EXCEPT !.pc = "orders", !.answer = {}, !.opened = opened]
    BY <1>7 DEF hydrate_live_working_orders_from_broker
  <2>2. config' = config /\ broker' = broker /\ gateway' = gateway /\ live.pc = "seed"
    BY <1>7 DEF hydrate_live_working_orders_from_broker
  <2>3. /\ live'.pc = "orders" /\ live'.closed = live.closed /\ live'.inventory = live.inventory
        /\ live'.recorded = live.recorded /\ live'.recovered = live.recovered
        /\ live'.memory = live.memory
    BY <1>0, <2>1 DEF Process
  <2> QED
    BY <1>0, <2>2, <2>3, TradesStay DEF Early
<1>8. CASE recover_live_trades_from_broker
  BY <1>0, <1>8, RecoverOwes
<1>9. CASE NextQuery
  <2>1. \/ live' = [live EXCEPT !.pc = "orders", !.todo = Accounts]
        \/ live' = [live EXCEPT !.pc = "trades", !.todo = Accounts]
    BY <1>9 DEF NextQuery
  <2>2. config' = config /\ broker' = broker /\ gateway' = gateway /\ live.pc \in {"positions", "orders"}
    BY <1>9 DEF NextQuery
  <2>3. /\ live'.pc = "orders" \/ (live'.pc = "trades" /\ live'.todo = Accounts)
        /\ live'.closed = live.closed /\ live'.inventory = live.inventory
        /\ live'.recorded = live.recorded /\ live'.recovered = live.recovered
        /\ live'.memory = live.memory
    BY <1>0, <2>1 DEF Process
  <2> QED
    BY <1>0, <2>2, <2>3, TradesStay DEF Early
<1>10. CASE replay_recovered_live_trades_to_strategies
  BY <1>0, <1>10, ReplayOwes
<1>11. CASE ensure_ready
  BY <1>0, <1>11, ReconnectOwes
<1>12. CASE drain_order_events
  BY <1>0, <1>12, DrainOwes
<1>13. CASE write_live_telemetry_file \/ write_strategy_inventory_store \/ write_strategy_state_store
  <2>1. /\ config' = config /\ broker' = broker /\ gateway' = gateway
        /\ live.pc \in {"telemetry", "inventory", "state"}
    BY <1>13 DEF write_live_telemetry_file, write_strategy_inventory_store, write_strategy_state_store
  <2>2. /\ live'.pc \in {"inventory", "state", "top"} /\ live'.closed = live.closed
        /\ live'.inventory.fills = live.inventory.fills
        /\ live'.recorded = live.recorded /\ live'.recovered = live.recovered
        /\ live'.memory = live.memory /\ live'.failed = live.failed /\ live'.enabled = live.enabled
    <3>1. CASE write_live_telemetry_file \/ write_strategy_state_store
      <4>1. live' = [live EXCEPT !.pc = "inventory"] \/ live' = [live EXCEPT !.pc = "top"]
        BY <3>1 DEF write_live_telemetry_file, write_strategy_state_store
      <4> QED
        BY <1>0, <4>1 DEF Process
    <3>2. CASE write_strategy_inventory_store
      <4>1. PICK store : store = sync_inventory_store_from_live_attachments
        OBVIOUS
      <4>2. live' = [live EXCEPT !.pc = "state", !.inventory = store]
        BY <3>2, <4>1 DEF write_strategy_inventory_store
      <4>3. store = [live.inventory EXCEPT !.lots = Held(live.attached, live.inventory.lots)]
        BY <1>0, <4>1, SyncedStore
      <4>4. store.fills = live.inventory.fills
        BY <1>0, <4>3 DEF Process, Inventory
      <4> QED
        BY <1>0, <4>2, <4>4 DEF Process
    <3> QED
      BY <1>13, <3>1, <3>2
  <2> QED
    BY <1>0, <2>1, <2>2, TradesStay DEF Early
<1>14. CASE Crash
  BY <1>14, NoProcessOwes DEF Crash
<1>15. CASE UNCHANGED vars
  <2>1. live' = live /\ config' = config /\ broker' = broker /\ gateway' = gateway
    BY <1>15 DEF vars
  <2>2. \A t \in Trades : Remembered(t) => Remembered(t)'
    BY <2>1 DEF Remembered
  <2>3. live'.pc \notin {"down", "waiting"} => FillsAreKnown(live)'
    BY <1>0, <2>1, <2>2, FillsStay DEF TradesInv
  <2>4. ASSUME live.pc \notin Early, NEW t \in Trades, broker[t[1]].traded >= t[2]
        PROVE  Accounted(t)'
    <3>1. PICK a \in Accounts : a = AccountOf(t[1])
      BY <1>0, TradeParts
    <3>2. Accounted(t)
      BY <2>4 DEF TradesInv, TradesAreAccounted
    <3>3. Coming(a, t) => Coming(a, t)'
      BY <2>1 DEF Coming
    <3> QED
      BY <1>0, <2>1, <2>2, <3>1, <3>2, <3>3, AccountedStays
  <2> QED
    BY <2>1, <2>3, <2>4 DEF TradesInv, TradesAreAccounted
<1> QED
  BY <1>1, <1>2, <1>3, <1>4, <1>5, <1>6, <1>7, <1>8, <1>9, <1>10, <1>11, <1>12, <1>13, <1>14, <1>15
     DEF Next, RunLive, Reconcile

\* Whatever sessions, queries and processes fail, and at whatever moment: once
\* the session of an account that trades is up and quiet, every trade of the
\* broker has reached its strategy, or was on record when the process started,
\* or a fill record of the order stands for it, or a query for trades failed.
THEOREM TradesAlwaysArrive == Spec => []TradesReachStrategies
<1>1. Init => BooksInv /\ TradesInv
  BY InitBooks, InitTrades
<1>2. (BooksInv /\ TradesInv) /\ [Next]_vars => (BooksInv /\ TradesInv)'
  BY BooksStep, TradesStep
<1>3. BooksInv /\ TradesInv => TradesReachStrategies
  <2> SUFFICES ASSUME BooksInv, TradesInv, live.pc \in {"ticks", "telemetry", "inventory", "state", "top"},
                      NEW t \in Trades, NEW a, a = AccountOf(t[1]),
                      live.enabled[a], ~live.failed, gateway[a].ready,
                      gateway[a].reports = <<>>, gateway[a].events = <<>>,
                      broker[t[1]].traded >= t[2]
               PROVE  \/ t \in live.memory.seen \union live.recorded
                      \/ recovered_trade_is_covered_by_known_aggregate(live.closed, t)
    BY DEF TradesReachStrategies
  <2>1. Accounted(t) /\ live.recovered = {} /\ live.pc # "trades"
    BY DEF TradesInv, TradesAreAccounted, Early
  <2>2. ~Coming(a, t)
    BY DEF Coming
  <2> QED
    BY <2>1, <2>2 DEF Accounted, Remembered
<1> QED
  BY <1>1, <1>2, <1>3, PTL DEF Spec
=============================================================================
