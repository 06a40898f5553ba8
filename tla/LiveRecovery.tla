---------------------------- MODULE LiveRecovery ----------------------------
(***************************************************************************)
(* What the live process remembers and how it finds its books again: the   *)
(* telemetry, inventory and strategy-state files it rewrites after every   *)
(* iteration, a crash at any point, the startup that reads them, and the   *)
(* reconciliation with the broker that startup and every reconnect of a    *)
(* trader gateway run while reports of new trades keep arriving.  The      *)
(* broker's orders trade one lot at a time, all buying one instrument; its *)
(* reports to a session that is gone are lost (QUICK topics).  A strategy  *)
(* remembers the trades it was told of and the orders it sent.  Left out:  *)
(* prices, position buckets (Position), submission and cancellation        *)
(* (CtpOrderFlow), the login dialogue (CtpSession), dry runs.              *)
(***************************************************************************)
EXTENDS Integers, Sequences, FiniteSets, SequencesExt, FiniteSetsExt, Functions

CONSTANTS
    Strategies, Accounts,
    Orders, Owner, Volume,   \* the orders strategies may send, their senders and sizes
    Manual,                  \* external_manual, holder of what was bought by hand
    ManualAccount,
    Configurations,          \* the accounts of the strategies, and what the broker's day is like
    MaxReports,              \* bound on the reports on their way to a session
    MaxFaults                \* bound on lost sessions, crashes and failed queries together

ASSUME OwnerAssumption  == Owner \in [Orders -> Strategies]
ASSUME VolumeAssumption == Volume \in [Orders -> Nat \ {0}]
ASSUME ConfigurationsAssumption ==
    Configurations \subseteq [account : [Strategies -> Accounts], byHand : BOOLEAN, apart : BOOLEAN]
ASSUME FiniteAssumption ==
    IsFiniteSet(Strategies) /\ IsFiniteSet(Accounts) /\ IsFiniteSet(Orders)
ASSUME ManualAssumption == Manual \notin Strategies /\ ManualAccount \in Accounts

VARIABLES
    config,    \* the accounts of the strategies; what never changes in a behaviour
    broker,    \* [Orders -> state and lots traded]
    gateway,   \* [Accounts -> session, reports on their way, pending_events_]
    refs,      \* [Orders -> client id known?, order_ref_to_cumulative_trade_volume_]
    live,      \* the process: its place, books and stores
    files,     \* what is on disk
    faults

vars == <<config, broker, gateway, refs, live, files, faults>>

Keys == Strategies \union {Manual}
Trades == {t \in Orders \X (1 .. Max({Volume[o] : o \in Orders})) : t[2] <= Volume[t[1]]}

\* Two trades of an order may be reported with the same second.
Second(t) == IF config.apart THEN t[2] ELSE 1

AccountOf(o) == config.account[Owner[o]]
OrdersOf(a) == {o \in Orders : AccountOf(o) = a}
StrategiesOf(a) == {s \in Strategies : config.account[s] = a}
KeysOf(a) == StrategiesOf(a) \union (IF a = ManualAccount THEN {Manual} ELSE {})
Lots(book, keys) == FoldFunctionOnSet(+, 0, book, keys)

BrokerLots(a) ==
    Lots([o \in Orders |-> broker[o].traded], OrdersOf(a))
        + (IF a = ManualAccount /\ config.byHand THEN 1 ELSE 0)

NoLots == [k \in Keys |-> 0]
NoMemory == [seen |-> {}, orders |-> {}]
NoInventory == [lots |-> NoLots, adjusted |-> FALSE, fills |-> {}]

\* A process that is not running.  books is history: what the last answer to a
\* position query made of the account's books, and whether, after an answer
\* that did not agree with them, the next query failed.
NoProcess ==
    [pc |-> "down", starting |-> TRUE, todo |-> {}, answer |-> {},
     enabled |-> [a \in Accounts |-> FALSE], books |-> [a \in Accounts |-> "unread"],
     lots |-> [a \in Accounts |-> 0], attached |-> [s \in Strategies |-> 0],
     opened |-> {}, closed |-> {},
     applied |-> [o \in Orders |-> [client |-> 0, ref |-> 0]],
     inventory |-> NoInventory, bindings |-> {}, memory |-> NoMemory,
     recovered |-> {}, replays |-> [t \in Trades |-> 0],
     recorded |-> {}, failed |-> FALSE]

NoRef == [bound |-> FALSE, filled |-> 0]
NoSession == [ready |-> FALSE, reports |-> <<>>, events |-> <<>>]

Init ==
    /\ config \in Configurations
    /\ broker = [o \in Orders |-> [state |-> "unsent", traded |-> 0]]
    /\ gateway = [a \in Accounts |-> NoSession]
    /\ refs = [o \in Orders |-> NoRef]
    /\ live = NoProcess
    /\ files = [telemetry |-> {}, inventory |-> NoInventory, state |-> NoMemory]
    /\ faults = 0

-----------------------------------------------------------------------------
(* The broker and the session's callbacks.                                 *)

Report(a, kind, o, k) ==
    /\ Len(gateway[a].reports) < MaxReports
    /\ gateway' = IF gateway[a].ready
               THEN [gateway EXCEPT ![a].reports = Append(@, [kind |-> kind, order |-> o, trade |-> k])]
               ELSE gateway

Trade(o) ==
    /\ broker[o].state = "working"
    /\ LET k == broker[o].traded + 1
       IN  /\ broker' = [broker EXCEPT ![o] = [traded |-> k,
                             state |-> IF k = Volume[o] THEN "done" ELSE "working"]]
           /\ Report(AccountOf(o), "trade", o, k)
    /\ UNCHANGED <<config, refs, live, files, faults>>

Cancel(o) ==
    /\ broker[o].state = "working"
    /\ broker' = [broker EXCEPT ![o].state = "done"]
    /\ Report(AccountOf(o), "cancel", o, 0)
    /\ UNCHANGED <<config, refs, live, files, faults>>

\* OnRtnTrade counts the order's lots itself, from where the recovery set the
\* count, and with the last one forgets the order, as OnRtnOrder does with a
\* cancelled one.
OnRtn(a) ==
    /\ gateway[a].reports # <<>>
    /\ LET report == Head(gateway[a].reports)
           o == report.order
           filled == refs[o].filled + 1
           over == report.kind = "cancel" \/ (report.kind = "trade" /\ filled >= Volume[o])
           event == [kind |-> report.kind, order |-> o, trade |-> report.trade,
                     filled |-> filled, last |-> over, bound |-> refs[o].bound]
       IN  /\ gateway' = [gateway EXCEPT ![a].reports = Tail(@), ![a].events = Append(@, event)]
           /\ refs' = [refs EXCEPT ![o] = IF over THEN NoRef
                                          ELSE IF report.kind = "trade" THEN [@ EXCEPT !.filled = filled]
                                          ELSE @]
    /\ UNCHANGED <<config, broker, live, files, faults>>

Drop(a) ==
    /\ gateway[a].ready /\ faults < MaxFaults
    /\ gateway' = [gateway EXCEPT ![a].ready = FALSE, ![a].reports = <<>>]
    /\ faults' = faults + 1
    /\ UNCHANGED <<config, broker, refs, live, files>>

-----------------------------------------------------------------------------
(* Fill records: what a closed order, a ledger entry or a recovered trade  *)
(* says, and which trades of the broker's list they make known.            *)

Fill(o, k, lots) == [order |-> o, trade |-> k, lots |-> lots]

build_known_recovered_trade_keys(fills) == {<<r.order, r.trade>> : r \in fills}

\* The record of an order filled in several trades stands for all its trades
\* of that second and price.
recovered_trade_is_covered_by_known_aggregate(fills, t) ==
    \E r \in fills : /\ r.order = t[1] /\ r.lots > 1
                     /\ Second(<<r.order, r.trade>>) = Second(t)

Known(fills, t) ==
    \/ t \in build_known_recovered_trade_keys(fills)
    \/ recovered_trade_is_covered_by_known_aggregate(fills, t)

-----------------------------------------------------------------------------
(* Startup: connect, seed the history, wait for ticks, read the stores.    *)

seed_live_closed_order_history_from_telemetry == files.telemetry

Start ==
    /\ live.pc = "down"
    /\ gateway' = [a \in Accounts |-> [NoSession EXCEPT !.ready = TRUE]]
    /\ live' = [NoProcess EXCEPT !.pc = "waiting",
                   !.enabled = [a \in Accounts |-> TRUE],
                   !.closed = seed_live_closed_order_history_from_telemetry]
    /\ UNCHANGED <<config, broker, refs, files, faults>>

apply_manual_inventory_adjustments(store) ==
    IF config.byHand /\ ~store.adjusted
    THEN [store EXCEPT !.lots[Manual] = @ + 1, !.adjusted = TRUE]
    ELSE store

seed_attachment_telemetry_from_inventory_store(store) == [s \in Strategies |-> store.lots[s]]

ReadStores ==
    /\ live.pc = "waiting"
    /\ LET store == apply_manual_inventory_adjustments(files.inventory)
       IN  live' = [live EXCEPT !.pc = "positions", !.todo = Accounts,
                       !.inventory = store,
                       !.bindings = files.state.orders, !.memory = files.state,
                       !.attached = seed_attachment_telemetry_from_inventory_store(store),
                       !.recorded = {t \in Trades : Known(store.fills \union live.closed, t)}]
    /\ UNCHANGED <<config, broker, gateway, refs, files, faults>>

-----------------------------------------------------------------------------
(* Reconciliation, at startup and after a reconnect, account by account.   *)

Shutdown ==
    /\ gateway' = [a \in Accounts |-> NoSession]
    /\ refs' = [o \in Orders |-> NoRef]

sessionVars == <<gateway, refs>>

\* The accounts are taken in the order of their names.
NextAccount == CHOOSE a \in live.todo : TRUE

FailAndTradeOn(next) ==
    IF live.starting
    THEN live' = NoProcess /\ Shutdown
    ELSE live' = [next EXCEPT !.pc = "ticks", !.todo = {}] /\ UNCHANGED sessionVars

\* What cannot be reconciled ends the startup, and pauses every account of a
\* process that was running.
Fail(next) ==
    IF live.starting
    THEN live' = NoProcess /\ Shutdown
    ELSE /\ live' = [next EXCEPT !.pc = "ticks", !.todo = {},
                        !.enabled = [a \in Accounts |-> FALSE]]
         /\ UNCHANGED sessionVars

QueryFails(a) ==
    \/ ~gateway[a].ready /\ UNCHANGED faults
    \/ /\ gateway[a].ready /\ faults < MaxFaults
       /\ faults' = faults + 1

QueryAnswers(a) == gateway[a].ready /\ UNCHANGED faults

hydrate_live_positions_from_broker ==
    /\ live.pc = "positions"
    /\ live.todo # {}
    /\ LET a == NextAccount
           held == BrokerLots(a)
           persisted == Lots(live.inventory.lots, KeysOf(a))
           only == StrategiesOf(a)
           next == [live EXCEPT !.lots[a] = held, !.books[a] = "differ"]
           done == [next EXCEPT !.books[a] = "agree", !.todo = @ \ {a}]
       IN  \/ /\ QueryFails(a)
              /\ live' = [live EXCEPT !.todo = @ \ {a},
                                     !.books[a] = IF @ = "differ" THEN "doubtful" ELSE @]
              /\ UNCHANGED sessionVars
           \/ /\ QueryAnswers(a)
              /\ IF persisted = held
                 THEN live' = done /\ UNCHANGED sessionVars
                 ELSE IF persisted = 0 /\ Cardinality(only) = 1
                 THEN /\ live' = [done EXCEPT !.attached =
                                      [s \in Strategies |-> IF s \in only THEN held ELSE @[s]]]
                      /\ UNCHANGED sessionVars
                 ELSE Fail(next)
    /\ UNCHANGED <<config, broker, files>>

build_recovered_working_order_lookup == live.bindings

\* The answer names the client ids the gateway knows when it arrives; by the
\* time the main thread seeds from it, the orders may have traded on.
query_working_orders ==
    /\ live.pc = "orders"
    /\ live.todo # {}
    /\ LET a == NextAccount
       IN \/ QueryFails(a) /\ live' = [live EXCEPT !.todo = @ \ {a}]
          \/ /\ QueryAnswers(a)
             /\ live' = [live EXCEPT !.pc = "seed", !.todo = @ \ {a},
                    !.opened = @ \ OrdersOf(a),
                    !.answer = {[order |-> o, traded |-> broker[o].traded, bound |-> refs[o].bound] :
                                   o \in {p \in OrdersOf(a) : broker[p].state = "working"}}]
    /\ UNCHANGED <<config, broker, gateway, refs, files>>

seed_recovered_order_mapping(found) ==
    refs' = [o \in Orders |->
                IF \E r \in found : r.order = o
                THEN [bound |-> TRUE, filled |-> (CHOOSE r \in found : r.order = o).traded]
                ELSE refs[o]]

hydrate_live_working_orders_from_broker ==
    /\ live.pc = "seed"
    /\ seed_recovered_order_mapping(
           {r \in live.answer : r.bound \/ r.order \in build_recovered_working_order_lookup})
    /\ live' = [live EXCEPT !.pc = "orders", !.answer = {},
                   !.opened = @ \union {r.order : r \in live.answer}]
    /\ UNCHANGED <<config, broker, gateway, files, faults>>

recover_live_trades_and_forget ==
    /\ live.pc = "trades" /\ live.todo # {}
    /\ LET a == NextAccount
           known == live.inventory.fills \union live.closed
           missed == {t \in Trades : /\ t[1] \in OrdersOf(a) /\ t[2] <= broker[t[1]].traded
                                     /\ ~Known(known, t)}
       IN  \/ QueryFails(a) /\ live' = [live EXCEPT !.todo = @ \ {a}, !.failed = TRUE]
           \/ /\ QueryAnswers(a)
              /\ live' = [live EXCEPT !.todo = @ \ {a}, !.recovered = @ \union missed]
    /\ UNCHANGED <<config, broker, gateway, refs, files>>

recover_live_trades_from_broker ==
    /\ live.pc = "trades"
    /\ live.todo # {}
    /\ LET a == NextAccount
           known == live.inventory.fills \union live.closed
           missed == {t \in Trades : /\ t[1] \in OrdersOf(a) /\ t[2] <= broker[t[1]].traded
                                     /\ ~Known(known, t)}
       IN  \/ QueryFails(a) /\ live' = [live EXCEPT !.todo = @ \ {a}, !.failed = TRUE]
           \/ /\ QueryAnswers(a)
              /\ live' = [live EXCEPT !.todo = @ \ {a}, !.recovered = @ \union missed,
                     !.closed = @ \union {Fill(t[1], t[2], 1) : t \in missed}]
    /\ UNCHANGED <<config, broker, gateway, refs, files>>

NextQuery ==
    /\ live.todo = {}
    /\ \/ live.pc = "positions" /\ live' = [live EXCEPT !.pc = "orders", !.todo = Accounts]
       \/ live.pc = "orders" /\ live' = [live EXCEPT !.pc = "trades", !.todo = Accounts]
    /\ UNCHANGED <<config, broker, gateway, refs, files, faults>>

\* What a strategy was told of, by an event or by the replay.
Told(memory, trades) == [memory EXCEPT !.seen = @ \union trades]

replay_recovered_live_trades_to_strategies ==
    /\ live.pc = "trades" /\ live.todo = {}
    /\ live' = [live EXCEPT !.pc = IF live.starting THEN "telemetry" ELSE "ticks",
                   !.starting = FALSE, !.recovered = {},
                   !.memory = Told(@, live.recovered),
                   !.replays = [t \in Trades |-> IF t \in live.recovered THEN @[t] + 1 ELSE @[t]]]
    /\ UNCHANGED <<config, broker, gateway, refs, files, faults>>

-----------------------------------------------------------------------------
(* The main loop: reconnect, ticks, order events, the three files.         *)

ensure_ready_without_rehydrating ==
    /\ live.pc = "top"
    /\ LET lost == {a \in Accounts : ~gateway[a].ready}
       IN  \E back \in SUBSET lost :
             /\ gateway' = [a \in Accounts |-> IF a \in back
                               THEN [NoSession EXCEPT !.ready = TRUE] ELSE gateway[a]]
             /\ live' = [live EXCEPT !.pc = "ticks",
                    !.enabled = [a \in Accounts |-> IF a \in lost THEN a \in back ELSE @[a]]]
    /\ UNCHANGED <<config, broker, refs, files, faults>>

\* A gateway that reconnects has dropped the events of its old session.
ensure_ready ==
    /\ live.pc = "top"
    /\ LET lost == {a \in Accounts : ~gateway[a].ready}
       IN  \E back \in SUBSET lost :
             /\ gateway' = [a \in Accounts |-> IF a \in back
                               THEN [NoSession EXCEPT !.ready = TRUE] ELSE gateway[a]]
             /\ live' = [live EXCEPT
                    !.pc = IF back = {} THEN "ticks" ELSE "positions",
                    !.todo = IF back = {} THEN {} ELSE Accounts,
                    !.enabled = [a \in Accounts |-> IF a \in lost THEN a \in back ELSE @[a]]]
    /\ UNCHANGED <<config, broker, refs, files, faults>>

submit_order(o) ==
    /\ live.pc = "ticks" /\ broker[o].state = "unsent"
    /\ live.enabled[AccountOf(o)] /\ gateway[AccountOf(o)].ready
    /\ broker' = [broker EXCEPT ![o].state = "working"]
    /\ refs' = [refs EXCEPT ![o] = [bound |-> TRUE, filled |-> 0]]
    /\ live' = [live EXCEPT !.memory.orders = @ \union {o}]
    /\ Report(AccountOf(o), "accepted", o, 0)
    /\ UNCHANGED <<config, files, faults>>

consume_live_fill_delta(applied, event) ==
    LET before == IF event.bound THEN applied[event.order].client ELSE applied[event.order].ref
    IN  IF event.kind = "trade" /\ event.filled > before THEN event.filled - before ELSE 0

\* An event names its trade and the cumulative volume, the lots up to it.
LotsToldBy(event) ==
    {t \in Trades : t[1] = event.order /\ t[2] \in event.trade - event.filled + 1 .. event.trade}

apply_live_order_event(p, event) ==
    LET o == event.order
        delta == consume_live_fill_delta(p.applied, event)
    IN  [p EXCEPT
           !.lots[AccountOf(o)] = @ + delta,
           !.attached[Owner[o]] = @ + delta,
           !.applied[o] = IF event.bound THEN [client |-> @.client + delta, ref |-> @.ref]
                                         ELSE [client |-> @.client, ref |-> @.ref + delta],
           !.opened = IF event.last THEN @ \ {o} ELSE @ \union {o},
           !.closed = IF event.last /\ event.kind = "trade"
                      THEN @ \union {Fill(o, event.trade, event.filled)} ELSE @,
           !.memory = IF event.kind = "trade" THEN Told(@, LotsToldBy(event)) ELSE @]

drain_order_events ==
    /\ live.pc = "ticks"
    /\ live' = [FoldSet(LAMBDA a, p : FoldLeft(apply_live_order_event, p, gateway[a].events),
                           live, Accounts)
                   EXCEPT !.pc = "telemetry"]
    /\ gateway' = [a \in Accounts |-> [gateway[a] EXCEPT !.events = <<>>]]
    /\ UNCHANGED <<config, broker, refs, files, faults>>

write_live_telemetry_file ==
    /\ live.pc = "telemetry"
    /\ files' = [files EXCEPT !.telemetry = live.closed]
    /\ live' = [live EXCEPT !.pc = "inventory"]
    /\ UNCHANGED <<config, broker, gateway, refs, faults>>

\* What the strategies are attached to, and the store's entries for the rest.
Held(attached, lots) == [k \in Keys |-> IF k \in Strategies THEN attached[k] ELSE lots[k]]

sync_inventory_store_from_live_attachments ==
    [live.inventory EXCEPT !.lots = Held(live.attached, @)]

write_strategy_inventory_without_adjustments ==
    /\ live.pc = "inventory"
    /\ LET store == sync_inventory_store_from_live_attachments
       IN  /\ files' = [files EXCEPT !.inventory =
                           [store EXCEPT !.fills = live.closed, !.adjusted = FALSE]]
           /\ live' = [live EXCEPT !.pc = "state", !.inventory = store]
    /\ UNCHANGED <<config, broker, gateway, refs, faults>>

write_strategy_inventory_store ==
    /\ live.pc = "inventory"
    /\ LET store == sync_inventory_store_from_live_attachments
       IN  /\ files' = [files EXCEPT !.inventory = [store EXCEPT !.fills = live.closed]]
           /\ live' = [live EXCEPT !.pc = "state", !.inventory = store]
    /\ UNCHANGED <<config, broker, gateway, refs, faults>>

write_strategy_state_store ==
    /\ live.pc = "state"
    /\ files' = [files EXCEPT !.state = live.memory]
    /\ live' = [live EXCEPT !.pc = "top"]
    /\ UNCHANGED <<config, broker, gateway, refs, faults>>

\* A file is truncated and then written: a crash in between leaves it empty.
Crash ==
    /\ live.pc # "down" /\ faults < MaxFaults
    /\ faults' = faults + 1
    /\ live' = NoProcess /\ Shutdown
    /\ \/ UNCHANGED files
       \/ live.pc = "telemetry" /\ files' = [files EXCEPT !.telemetry = {}]
       \/ live.pc = "inventory" /\ files' = [files EXCEPT !.inventory = NoInventory]
       \/ live.pc = "state" /\ files' = [files EXCEPT !.state = NoMemory]
    /\ UNCHANGED <<config, broker>>

-----------------------------------------------------------------------------

Reconcile ==
    \/ hydrate_live_positions_from_broker \/ query_working_orders
    \/ hydrate_live_working_orders_from_broker \/ recover_live_trades_from_broker
    \/ NextQuery \/ replay_recovered_live_trades_to_strategies

RunLive ==
    \/ ReadStores \/ Reconcile \/ ensure_ready \/ drain_order_events
    \/ write_live_telemetry_file \/ write_strategy_inventory_store \/ write_strategy_state_store

Next ==
    \/ \E o \in Orders : Trade(o) \/ Cancel(o) \/ submit_order(o)
    \/ \E a \in Accounts : OnRtn(a) \/ Drop(a)
    \/ Start \/ RunLive \/ Crash

Spec == Init /\ [][Next]_vars

-----------------------------------------------------------------------------

\* Between its reconciliations the loop works on books that are one: what the
\* strategies of an account hold, and what was bought by hand, is what the
\* account holds, whatever was lost, crashed or arrived while it reconciled.
\* (An account that no position query was answered for has not been reconciled;
\* one that was found to differ is paused, but a reconnect lets it trade again
\* also when it then fails to read the positions: its books are doubtful.)
AttachmentsAddUp ==
    live.pc \in {"ticks", "telemetry", "inventory", "state", "top"} =>
        \A a \in Accounts : (live.enabled[a] /\ live.books[a] \in {"agree", "differ"}) =>
            live.lots[a] = Lots(sync_inventory_store_from_live_attachments.lots, KeysOf(a))

\* One process replays a recovered trade to its strategy once, however often
\* it reconnects and reads the broker's list again.
RecoveredOnce == \A t \in Trades : live.replays[t] <= 1

\* A manual adjustment is in the books once, and on disk together with the
\* record that it was applied, however often the process crashes and starts.
AdjustedOnce ==
    \A store \in {files.inventory, live.inventory} :
        store.lots[Manual] = IF store.adjusted THEN 1 ELSE 0

\* When a session is up and nothing of it is on its way or queued, every trade
\* of the broker has reached its strategy, as an event or from the broker's
\* list, though reports were lost with a session and queued events dropped by a
\* reconnect: unless the files had the trade recorded when the process started,
\* the record of an order filled in several trades stands for it, a query for
\* trades failed, or the account is paused.
TradesReachStrategies ==
    live.pc \in {"ticks", "telemetry", "inventory", "state", "top"} =>
        \A t \in Trades :
            LET a == AccountOf(t[1])
            IN  (/\ live.enabled[a] /\ ~live.failed /\ gateway[a].ready
                 /\ gateway[a].reports = <<>> /\ gateway[a].events = <<>>
                 /\ broker[t[1]].traded >= t[2])
                => \/ t \in live.memory.seen \union live.recorded
                   \/ recovered_trade_is_covered_by_known_aggregate(live.closed, t)

\* A lot the broker holds is in the account's books at most once.
LotsAreTheBrokers ==
    \A a \in Accounts : live.books[a] = "agree" => live.lots[a] <= BrokerLots(a)
=============================================================================
