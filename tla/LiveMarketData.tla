--------------------------- MODULE LiveMarketData ---------------------------
(***************************************************************************)
(* Market data in the live process: CtpMarketDataGateway keeps the latest  *)
(* tick of each instrument, and the main loop drains the ticks and the     *)
(* order events and then waits until a callback reports activity or the    *)
(* poll interval is over.  A callback stores under the gateway's mutex and *)
(* reports after releasing it.  The first tick of a new trading day rolls  *)
(* the positions.  One account; prices, bars and the telemetry files are   *)
(* left out.  The trader gateway appears as its queue of order events and  *)
(* its tick query (CtpOrderFlow, CtpSession).                              *)
(***************************************************************************)
EXTENDS MdSession, TradingDays

CONSTANTS
    Instruments,
    Labels,       \* trading days a tick or its timestamp may name
    MaxEvents     \* bound on order events

ASSUME LabelsAssumption == Labels \subseteq Nat \ {NoDay}

VARIABLES
    gateway,   \* latest_ticks_, queued order events, callbacks yet to report
    loop       \* the main loop: its place, its batch, the day, what it has done

liveVars == <<md, step, phase, trouble, gateway, loop>>

NoTicks == [i \in Instruments |-> [n |-> 0, day |-> NoDay]]

LiveInit ==
    /\ SessionInit /\ step = "connect"
    /\ gateway = [latest |-> NoTicks, sent |-> 0, events |-> 0, filled |-> 0,
                  reporting |-> {}]
    /\ loop = [pc |-> "first", active |-> FALSE, tried |-> FALSE, batch |-> {}, day |-> NoDay,
               seen |-> [i \in Instruments |-> 0], lots |-> {}, stop |-> FALSE]

KeepGateway == UNCHANGED gateway

-----------------------------------------------------------------------------
(* Callbacks: the market-data thread and the trader thread.                *)

\* The later of the day the front names and the day the clock implies.
trading_day_label_from_tick(reported, inferred) ==
    IF reported = NoDay THEN inferred ELSE Max({reported, inferred})

\* A tick replaces the one of its instrument that was not drained yet.
live_OnRtnDepthMarketData ==
    /\ md.ready /\ md.subscribed > 0
    /\ gateway.sent < MaxTicks /\ "md" \notin gateway.reporting
    /\ \E i \in Instruments, reported \in Labels \union {NoDay}, inferred \in Labels :
          gateway' = [gateway EXCEPT
              !.sent = @ + 1, !.reporting = @ \union {"md"},
              !.latest[i] = [n |-> gateway.sent + 1,
                             day |-> trading_day_label_from_tick(reported, inferred)]]
    /\ UNCHANGED loop /\ KeepSession

OrderEventQueued ==
    /\ gateway.filled < MaxEvents /\ "trader" \notin gateway.reporting
    /\ phase \in {"waiting", "running"}
    /\ gateway' = [gateway EXCEPT !.events = @ + 1, !.filled = @ + 1,
                                  !.reporting = @ \union {"trader"}]
    /\ UNCHANGED loop /\ KeepSession

notify_live_activity ==
    /\ \E thread \in gateway.reporting :
          gateway' = [gateway EXCEPT !.reporting = @ \ {thread}]
    /\ loop' = [loop EXCEPT !.active = TRUE]
    /\ KeepSession

\* The gateway's copies of the session's callbacks: an error is reported as
\* activity, a connection or a login is not.
LiveCallback ==
    /\ \/ (OnFrontConnected \/ OnRspUserLogin) /\ UNCHANGED loop
       \/ (OnFrontDisconnected \/ OnRspError) /\ loop' = [loop EXCEPT !.active = TRUE]
    /\ KeepGateway

-----------------------------------------------------------------------------
(* connect() and ensure_ready() of the gateway.                            *)

\* A new session starts without ticks.
live_connect ==
    /\ Connect
    /\ gateway' = IF step = "connect" THEN [gateway EXCEPT !.latest = NoTicks] ELSE gateway
    /\ UNCHANGED loop

live_ensure_ready ==
    /\ EnsureReady
    /\ phase = "running" => loop.pc = "ensure" /\ ~loop.tried
    /\ loop' = [loop EXCEPT !.tried = TRUE]
    /\ KeepGateway

-----------------------------------------------------------------------------
(* Startup: connect, then wait for the first tick.                         *)

StartWaiting ==
    /\ phase = "startup" /\ step \in {"connected", "gave_up"}
    /\ phase' = "waiting" /\ step' = "idle"
    /\ UNCHANGED <<md, trouble, loop>> /\ KeepGateway

\* What is not retryable, the attempt limit included, is thrown.
StartupThrows ==
    /\ \/ phase \in {"startup", "waiting"} /\ step = "refused"
       \/ phase = "waiting" /\ step = "idle" /\ ~md.ready /\ ~MayAttempt
    /\ phase' = "failed" /\ step' = "idle" /\ md' = Released(md)
    /\ UNCHANGED <<trouble, loop>> /\ KeepGateway

AttemptReturns ==
    /\ phase = "waiting" /\ step \in {"connected", "gave_up"}
    /\ step' = "idle"
    /\ UNCHANGED <<md, phase, trouble, loop>> /\ KeepGateway

\* The first ticks set the day; they reach the strategies after the start.
wait_for_initial_live_market_data ==
    /\ phase = "waiting" /\ step = "idle" /\ md.ready
    /\ LET arrived == {i \in Instruments : gateway.latest[i].n > 0}
       IN  /\ arrived # {}
           /\ gateway' = [gateway EXCEPT !.latest = NoTicks]
           /\ \E i \in arrived :
                 loop' = [loop EXCEPT !.pc = "reset", !.day = gateway.latest[i].day,
                              !.seen = [j \in Instruments |-> gateway.latest[j].n]]
    /\ phase' = "running"
    /\ UNCHANGED <<md, step, trouble>>

-----------------------------------------------------------------------------
(* The main loop.                                                          *)

At(pc) == phase = "running" /\ step = "idle" /\ loop.pc = pc

reset_live_activity ==
    /\ At("reset") /\ ~loop.stop
    /\ loop' = [loop EXCEPT !.pc = "ensure", !.active = FALSE, !.tried = FALSE]
    /\ KeepGateway /\ KeepSession

\* ensure_ready returned, whatever it did.
drain_ticks ==
    /\ At("ensure")
    /\ md.ready \/ loop.tried \/ ~MayAttempt \/ md.resting
    /\ IF md.ready
       THEN /\ loop' = [loop EXCEPT !.pc = "ticks",
                    !.batch = {<<i, gateway.latest[i]>> : i \in
                                   {j \in Instruments : gateway.latest[j].n > 0}}]
            /\ gateway' = [gateway EXCEPT !.latest = NoTicks]
       ELSE \* no stream: the trader gateway is asked for a tick of each
            \* instrument, and may have none
            \E known \in SUBSET Instruments, day \in Labels :
                /\ gateway.sent + 1 <= MaxTicks \/ known = {}
                /\ gateway' = IF known = {} THEN gateway ELSE [gateway EXCEPT !.sent = @ + 1]
                /\ loop' = [loop EXCEPT !.pc = "ticks",
                       !.batch = {<<i, [n |-> gateway.sent + 1, day |-> day]>> : i \in known}]
    /\ KeepSession

dispatch_tick_rolling_forward ==
    /\ At("ticks")
    /\ \E tick \in loop.batch :
          LET day == tick[2].day
          IN  loop' = [loop EXCEPT !.batch = @ \ {tick}, !.seen[tick[1]] = tick[2].n,
                           !.day = IF day # NoDay THEN day ELSE @,
                           !.lots = IF loop.day < day THEN {} ELSE @]
    /\ KeepGateway /\ KeepSession

dispatch_tick_of_the_day ==
    /\ At("ticks")
    /\ \E tick \in loop.batch :
          loop' = [loop EXCEPT !.batch = @ \ {tick}, !.day = tick[2].day, !.lots = {},
                       !.seen[tick[1]] = IF tick[2].day = loop.day THEN tick[2].n ELSE @]
    /\ KeepGateway /\ KeepSession

\* A tick of another day than the last one's rolls all positions first: lots
\* counts, by the day they were opened on, those that stand as today's.
dispatch_tick ==
    /\ At("ticks")
    /\ \E tick \in loop.batch :
          LET day == tick[2].day
              rolls == day # NoDay /\ loop.day # NoDay /\ day # loop.day
          IN  loop' = [loop EXCEPT !.batch = @ \ {tick},
                           !.seen[tick[1]] = tick[2].n,
                           !.day = IF day # NoDay THEN day ELSE @,
                           !.lots = IF rolls THEN {} ELSE @]
    /\ KeepGateway /\ KeepSession

drain_order_events_and_reset ==
    /\ At("ticks") /\ loop.batch = {}
    /\ loop' = [loop EXCEPT !.pc = "wait", !.active = FALSE,
                    !.lots = IF gateway.events > 0 THEN @ \union {loop.day} ELSE @]
    /\ gateway' = [gateway EXCEPT !.events = 0]
    /\ KeepSession

drain_order_events ==
    /\ At("ticks") /\ loop.batch = {}
    /\ loop' = [loop EXCEPT !.pc = "wait",
                    !.lots = IF gateway.events > 0 THEN @ \union {loop.day} ELSE @]
    /\ gateway' = [gateway EXCEPT !.events = 0]
    /\ KeepSession

\* The predicate, the poll interval or the stop flag ends the wait.
wait_for_live_activity ==
    /\ At("wait")
    /\ loop' = [loop EXCEPT !.pc = "reset", !.active = FALSE]
    /\ KeepGateway /\ KeepSession

live_signal ==
    /\ phase \in {"waiting", "running"} /\ ~loop.stop
    /\ loop' = [loop EXCEPT !.stop = TRUE]
    /\ KeepGateway /\ KeepSession

LoopStops ==
    /\ loop.stop
    /\ At("reset") \/ (phase = "waiting" /\ step = "idle")
    /\ md' = Released(md) /\ phase' = "stopped"
    /\ UNCHANGED <<step, trouble, loop>> /\ KeepGateway

LiveMain ==
    \/ StartWaiting \/ StartupThrows \/ AttemptReturns \/ wait_for_initial_live_market_data
    \/ reset_live_activity \/ drain_ticks \/ dispatch_tick \/ drain_order_events
    \/ wait_for_live_activity \/ LoopStops

LiveNext ==
    \/ LiveMain \/ live_connect \/ live_ensure_ready \/ LiveCallback
    \/ Rested /\ UNCHANGED <<gateway, loop>>
    \/ live_OnRtnDepthMarketData \/ OrderEventQueued \/ notify_live_activity \/ live_signal

LiveSpec == LiveInit /\ [][LiveNext]_liveVars

LiveFairness == SessionFairness /\ WF_liveVars(LiveMain) /\ WF_liveVars(notify_live_activity)

-----------------------------------------------------------------------------

\* The loop never sleeps through work: when it waits with the activity flag
\* down, a drainable tick or an order event still has its callback before the
\* notification, although the flag is cleared in two places and the callbacks
\* store and report in two steps.
NoLostWakeup ==
    (At("wait") /\ ~loop.active /\ gateway.reporting = {}) =>
        gateway.events = 0 /\ (md.ready => gateway.latest = NoTicks)

\* What the books call today's position was opened on the day of the last tick:
\* ticks are coalesced per instrument and drained in any order, and an event
\* may be applied between two of them.
TodayIsToday == loop.lots \subseteq {loop.day}

\* A tick that the gateway keeps reaches the strategies, or a newer one does,
\* or its session ends.
TicksAreSeen ==
    \A i \in Instruments : \A n \in 1 .. MaxTicks :
        (phase = "running" /\ gateway.latest[i].n = n) ~>
            (loop.seen[i] >= n \/ ~md.ready \/ phase # "running")
=============================================================================
