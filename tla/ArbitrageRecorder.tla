-------------------------- MODULE ArbitrageRecorder --------------------------
(***************************************************************************)
(* itrader_arbitrage_recorder: it asks the trader front, one exchange      *)
(* after the other, for the combination instruments (or takes a configured *)
(* list), then subscribes to them in batches and appends every tick to one *)
(* file per trading day.  Its market-data session and its writer thread    *)
(* are copies of those of the CSV recorder (MdSession, RecorderWriter).    *)
(* Instruments are model values; the record's bytes, the connect test and  *)
(* the pauses between queries and batches are left out.  What the trader   *)
(* front lists is external.                                                *)
(***************************************************************************)
EXTENDS MdSession, RecorderWriter, TradingDays

CONSTANTS
    Exchanges,     \* sequence of the exchanges to ask
    Listed,        \* what the front lists for each of them
    Wanted,        \* combinations that are traded: what should_keep keeps
    NeedsAuth,     \* auth_code and app_id are configured
    Days           \* trading days a tick may name

\* The record of a tick: its number among the accepted ones (history), and the
\* file of its day.
ArbRow == [n : Nat, stream : {"daily"}, file : (Days \union {NoDay}) \X {"daily"},
           header : {FALSE}]

ASSUME ArbAssumption ==
    /\ Exchanges \in Seq(DOMAIN Listed) /\ NeedsAuth \in BOOLEAN
    /\ "daily" \in Streams /\ Header \notin ArbRow

VARIABLES
    trader,   \* the discoverer's session, its query and what it has found
    tape      \* ticks received, and the trading day of the market-data session

arbVars == <<md, step, phase, trouble, queue, writer, stopping, files, trader, tape>>

NoQuery == [asked |-> FALSE, rest |-> {}, kept |-> {}, done |-> FALSE, error |-> FALSE]

NewTrader(mode, pc) ==
    [mode |-> mode, pc |-> pc, front |-> FALSE, auth |-> ~NeedsAuth, login |-> FALSE, ready |-> FALSE,
     error |-> FALSE, asked |-> "none", next |-> 1, query |-> NoQuery, found |-> {}]

ArbInit ==
    /\ SessionInit /\ WriterInit /\ step = "idle"
    /\ files = [f \in Files |-> [rows |-> <<>>, flushed |-> 0]]
    /\ \E mode \in {"trader_query", "configured"} : trader = NewTrader(mode, "start")
    /\ tape = [received |-> 0, sessionDay |-> NoDay]

KeepRecorder == KeepSession /\ KeepWriter /\ UNCHANGED tape

Discovering(pc) == phase = "startup" /\ trader.pc = pc

-----------------------------------------------------------------------------
(* ArbitrageInstrumentDiscoverer: any failure ends the process.            *)

Abort ==
    /\ phase' = "stopped"
    /\ stopping' = [stopping EXCEPT !.code = 1]
    /\ UNCHANGED <<md, step, queue, writer, files, trader, tape>>

\* connect(): front, authentication and login, each waited for.
StartDiscovery ==
    /\ Discovering("start") /\ trader.mode = "trader_query"
    /\ trader' = NewTrader(trader.mode, "front")
    /\ KeepRecorder

DiscoveryFrontAwaited ==
    /\ Discovering("front") /\ trader.front
    /\ trader' = IF trader.auth THEN [trader EXCEPT !.pc = "login", !.asked = "login"]
                                ELSE [trader EXCEPT !.pc = "auth", !.asked = "auth"]
    /\ KeepRecorder

DiscoveryAuthAwaited ==
    /\ Discovering("auth") /\ trader.auth /\ ~trader.error
    /\ trader' = [trader EXCEPT !.pc = "login", !.asked = "login"]
    /\ KeepRecorder

DiscoveryLoginAwaited ==
    /\ Discovering("login") /\ trader.login /\ trader.ready
    /\ trader' = [trader EXCEPT !.pc = "query"]
    /\ KeepRecorder

DiscoveryRefused ==
    /\ \/ Discovering("auth") /\ trader.auth /\ trader.error
       \/ Discovering("login") /\ trader.login /\ ~trader.ready
       \/ Discovering("query") /\ trader.next <= Len(Exchanges) /\ ~trader.ready
       \/ Discovering("answer") /\ trader.query.done /\ trader.query.error
    /\ UNCHANGED trouble
    /\ Abort

\* Each wait has its time limit; a request lost with the front times out.
DiscoveryTimesOut ==
    /\ \/ Discovering("front") /\ ~trader.front
       \/ Discovering("auth") /\ ~trader.auth
       \/ Discovering("login") /\ ~trader.login
       \/ Discovering("answer") /\ ~trader.query.done
    /\ IF trader.pc # "front" /\ ~trader.front THEN UNCHANGED trouble ELSE Trouble
    /\ Abort

\* query_all(): the next exchange is asked when the last one has answered.
AskExchange ==
    /\ Discovering("query") /\ trader.next <= Len(Exchanges) /\ trader.ready
    /\ trader' = [trader EXCEPT !.pc = "answer",
                     !.query = [NoQuery EXCEPT !.asked = TRUE,
                                               !.rest = Listed[Exchanges[trader.next]]]]
    /\ KeepRecorder

ExchangeAnsweredAnyhow ==
    /\ Discovering("answer") /\ trader.query.done
    /\ trader' = [trader EXCEPT !.pc = "query", !.next = @ + 1, !.query = NoQuery,
                                !.found = @ \union trader.query.kept]
    /\ KeepRecorder

ExchangeAnswered ==
    /\ Discovering("answer") /\ trader.query.done /\ ~trader.query.error
    /\ trader' = [trader EXCEPT !.pc = "query", !.next = @ + 1, !.query = NoQuery,
                                !.found = @ \union trader.query.kept]
    /\ KeepRecorder

\* The recorder is built with what was found; with nothing the process ends.
InstrumentsKnown(found) ==
    /\ trader' = [NewTrader(trader.mode, "done") EXCEPT !.found = found]
    /\ step' = "connect"
    /\ UNCHANGED <<md, phase, trouble, tape>> /\ KeepWriter

FinishDiscovery ==
    /\ Discovering("query") /\ trader.next > Len(Exchanges)
    /\ IF trader.found = {} THEN UNCHANGED trouble /\ Abort
       ELSE InstrumentsKnown(trader.found)

LoadConfigured ==
    /\ Discovering("start") /\ trader.mode = "configured"
    /\ \E listed \in SUBSET UNION {Listed[e] : e \in Range(Exchanges)} :
          IF listed = {} THEN UNCHANGED trouble /\ Abort
          ELSE InstrumentsKnown(listed)

Discover ==
    \/ StartDiscovery \/ DiscoveryFrontAwaited \/ DiscoveryAuthAwaited
    \/ DiscoveryLoginAwaited \/ DiscoveryRefused \/ DiscoveryTimesOut
    \/ AskExchange \/ ExchangeAnswered \/ FinishDiscovery \/ LoadConfigured

\* Callbacks of the trader front.
DiscoveryUp == trader.pc \in {"front", "auth", "login", "query", "answer"} /\ phase = "startup"

DiscoveryFrontConnected ==
    /\ DiscoveryUp /\ ~trader.front
    /\ trader' = [trader EXCEPT !.front = TRUE]
    /\ KeepRecorder

DiscoveryFrontDisconnected ==
    /\ DiscoveryUp /\ trader.front /\ Trouble
    /\ trader' = [trader EXCEPT !.front = FALSE, !.auth = FALSE, !.login = FALSE,
                                !.ready = FALSE, !.error = TRUE, !.asked = "none",
                                !.query.asked = FALSE]
    /\ UNCHANGED <<md, step, phase, queue, writer, stopping, files, tape>>

OnRspAuthenticate ==
    /\ trader.asked = "auth" /\ DiscoveryUp
    /\ \E ok \in BOOLEAN :
          /\ trader' = [trader EXCEPT !.auth = TRUE, !.asked = "none", !.error = @ \/ ~ok]
          /\ IF ok THEN UNCHANGED trouble ELSE Trouble
    /\ UNCHANGED <<md, step, phase, queue, writer, stopping, files, tape>>

OnRspDiscoveryLogin ==
    /\ trader.asked = "login" /\ DiscoveryUp
    /\ \E ok \in BOOLEAN :
          /\ trader' = [trader EXCEPT !.login = TRUE, !.ready = ok, !.asked = "none",
                                      !.error = @ \/ ~ok]
          /\ IF ok THEN UNCHANGED trouble ELSE Trouble
    /\ UNCHANGED <<md, step, phase, queue, writer, stopping, files, tape>>

\* The answer comes in pieces; the last one, or an error, is marked last.
collect_instrument ==
    /\ trader.query.asked /\ ~trader.query.done /\ DiscoveryUp
    /\ \/ /\ \E i \in trader.query.rest :
                trader' = [trader EXCEPT !.query.rest = @ \ {i},
                                         !.query.kept = @ \union ({i} \intersect Wanted),
                                         !.query.done = trader.query.rest = {i}]
          /\ UNCHANGED trouble
       \/ /\ trader.query.rest = {}
          /\ trader' = [trader EXCEPT !.query.done = TRUE]
          /\ UNCHANGED trouble
       \/ /\ Trouble
          /\ trader' = [trader EXCEPT !.query.done = TRUE, !.query.error = TRUE]
    /\ UNCHANGED <<md, step, phase, queue, writer, stopping, files, tape>>

DiscoveryCallback ==
    \/ DiscoveryFrontConnected \/ DiscoveryFrontDisconnected
    \/ OnRspAuthenticate \/ OnRspDiscoveryLogin \/ collect_instrument

-----------------------------------------------------------------------------
(* ArbitrageBinaryMarketDataRecorder: its copies of the session's parts.   *)

\* start() and the connects of the loop begin once the instruments are known.
arb_connect ==
    /\ Connect
    /\ tape' = IF step = "connect" THEN [tape EXCEPT !.sessionDay = NoDay] ELSE tape

arb_ensure_ready == EnsureReady /\ UNCHANGED tape

ArbCallback ==
    /\ Callback
    /\ \E day \in Days :
          tape' = IF md.asked /\ md'.ready THEN [tape EXCEPT !.sessionDay = day] ELSE tape

\* The first day label that is not empty.
trading_day_for_record(sent, session, action, today) ==
    CASE sent # NoDay -> sent
      [] session # NoDay -> session
      [] action # NoDay -> action
      [] OTHER -> today

\* Only a tick without an instrument is dropped.
arb_OnRtnDepthMarketData ==
    /\ md.ready /\ md.subscribed > 0 /\ tape.received < MaxTicks
    /\ tape' = [tape EXCEPT !.received = @ + 1]
    /\ \/ UNCHANGED queue
       \/ \E sent \in Days \union {NoDay}, action \in Days :
             LET day == trading_day_for_record(sent, tape.sessionDay, action, action)
             IN  Push([n |-> Len(queue.accepted) + 1, stream |-> "daily", file |-> <<day, "daily">>,
                      header |-> FALSE])
    /\ UNCHANGED <<writer, stopping, files, trader>> /\ KeepSession

arb_writer_loop ==
    /\ phase # "stopped"
    /\ \/ (WriterStep \/ IdleRound) /\ UNCHANGED trouble
       \/ WriterFails /\ Trouble
    /\ UNCHANGED <<md, step, phase, trader, tape>>

\* start() and run_recorder, as in the CSV recorder.
arb_start ==
    /\ phase = "startup" /\ trader.pc = "done"
    /\ \/ step = "connected" /\ UNCHANGED md
       \/ step = "gave_up" /\ ReconnectEnabled /\ md' = Released(md)
    /\ phase' = "running" /\ step' = "idle"
    /\ UNCHANGED <<trouble, trader, tape>> /\ UNCHANGED writerVars

arb_leave(code) ==
    /\ phase' = "stopping" /\ step' = "idle"
    /\ stopping' = [stopping EXCEPT !.code = code]
    /\ UNCHANGED <<md, trouble, queue, writer, files, trader, tape>>

arb_loop ==
    \/ phase = "startup" /\ step = "refused" /\ arb_leave(1)
    \/ phase = "startup" /\ step = "gave_up" /\ ~ReconnectEnabled /\ arb_leave(1)
    \/ phase = "running" /\ step = "idle" /\ stopping.program /\ arb_leave(0)
    \/ phase = "running" /\ step = "idle" /\ stopping.fatal /\ arb_leave(1)

arb_stop ==
    /\ \/ /\ phase = "stopping"
          /\ md' = Released(md) /\ phase' = "draining" /\ UNCHANGED stopping
       \/ /\ phase = "draining" /\ ~stopping.writer
          /\ stopping' = [stopping EXCEPT !.writer = TRUE] /\ UNCHANGED <<md, phase>>
       \/ /\ phase = "draining" /\ stopping.writer /\ writer.pc \in {"exited", "failed"}
          /\ phase' = "stopped" /\ UNCHANGED <<md, stopping>>
    /\ UNCHANGED <<step, trouble, queue, writer, files, trader, tape>>

ArbMain == arb_start \/ arb_loop \/ arb_stop

arb_signal ==
    /\ phase = "running" /\ StopRequested
    /\ UNCHANGED <<trader, tape>> /\ KeepSession

ArbSession ==
    /\ arb_connect \/ arb_ensure_ready \/ ArbCallback \/ (Rested /\ UNCHANGED tape)
    /\ UNCHANGED trader /\ KeepWriter

ArbNext ==
    \/ Discover \/ DiscoveryCallback \/ ArbSession
    \/ ArbMain \/ arb_writer_loop \/ arb_signal
    \/ arb_OnRtnDepthMarketData

-----------------------------------------------------------------------------

\* Once it subscribes, a recorder that asked the front knows every wanted
\* combination of every exchange: an exchange that timed out, answered in part
\* or with an error, or a front that dropped between two exchanges, must not
\* leave a recorder that runs with part of the instruments.
NoPartialDiscovery ==
    (trader.pc = "done" /\ trader.mode = "trader_query") =>
        trader.found = Wanted \intersect UNION {Listed[e] : e \in Range(Exchanges)}
=============================================================================
